---------------------------- MODULE Spec2Model ----------------------------
(***************************************************************************)
(* The per-window gesture / physics state machine of the WindowPhysics     *)
(* controller, in its five source variants:                                *)
(*                                                                         *)
(*   "ShakePhysics"   src/js/window-physics.js    1..572  (shake, physics) *)
(*   "StretchGravity" src/js/window-physics.js  574..1193 (stretch,gravity)*)
(*   "ShakeBasic"     src/js/window-physics.js 1195..1539 (shake, no loop) *)
(*   "StretchClean"   src/unnamed/part_000               (stretch,gravity) *)
(*   "StretchBasic"   src/unnamed/part_001               (stretch)         *)
(*                                                                         *)
(* One controller object is the record `win`, the controller of a second   *)
(* window of the page the record `other`; every method of the class is     *)
(* an operator from the object's state to its state after the call, so a   *)
(* handler that calls other methods is the composition of their operators. *)
(* Pointer coordinates are whole pixels.  Positions and velocities are JS   *)
(* Numbers; they are kept in fixed point, Scale units per pixel, and a      *)
(* product with a decimal factor is truncated toward zero.                  *)
(***************************************************************************)
EXTENDS Integers, Sequences, FiniteSets, TLC

VARIABLES variant, win, other, pointer, drags, clicks, ticks, lastOp

vars == <<variant, win, other, pointer, drags, clicks, ticks, lastOp>>

----------------------------------------------------------------------------
(* Bounds of the model *)

\* pointer-down events per run
MaxDrags == 1
\* double-clicks on the title bar per run
MaxClicks == 1
\* timer ticks of the physics loop per run under Spec
MaxTicks == 2
\* samples a shake variant's drag session records under Spec
MaxSamples == 3
\* drag sessions per run under SpecSessions
MaxSessions == 2
\* controllers constructed for one element before a run is cut
MaxControllers == 2
\* the viewport and the window's layout box, in pixels
ViewportWidth == 130
ViewportHeight == 300
WindowWidth == 100
WindowHeight == 60

\* fixed-point resolution: units per pixel
Scale == 100

Px(n) == n * Scale

\* the value of style.top / style.bottom when it is 'auto': no pixel offset
Auto == 0 - 1000000

Variants == {"ShakePhysics", "StretchGravity", "ShakeBasic", "StretchClean", "StretchBasic"}

StretchVariants == {"StretchGravity", "StretchClean", "StretchBasic"}

ShakeVariants == {"ShakePhysics", "ShakeBasic"}

PhysicsVariants == {"ShakePhysics", "StretchGravity", "StretchClean", "StretchBasic"}

GravityVariants == {"StretchGravity", "StretchClean"}

\* variants that keep lastMouseX / lastMouseY and move by per-event deltas
DeltaVariants == {"ShakePhysics", "StretchGravity", "StretchBasic"}

----------------------------------------------------------------------------
(* Arithmetic on fixed-point numbers *)

Abs(n) == IF n < 0 THEN -n ELSE n

Min(a, b) == IF a < b THEN a ELSE b

Max(a, b) == IF a > b THEN a ELSE b

\* v * (num / den), truncated toward zero
MulFrac(v, num, den) == IF v >= 0 THEN (v * num) \div den ELSE -(((-v) * num) \div den)

\* Math.max(0, Math.min(hi, x))
Clamp(x, hi) == Max(0, Min(hi, x))

----------------------------------------------------------------------------
(* Constructor constants, per variant *)

maxStretch == IF variant = "StretchClean" THEN 60 ELSE 80

snapThreshold == IF variant = "StretchClean" THEN 40 ELSE 60

\* friction and bounce, in hundredths
friction == IF variant \in GravityVariants THEN 98 ELSE 95

bounce == IF variant \in GravityVariants THEN 60 ELSE 30

\* velocity per pixel of pointer delta, in tenths
responsiveness ==
  CASE variant = "StretchGravity" -> 12
    [] variant = "StretchClean" -> 3
    [] OTHER -> 8

\* gravity per tick, in tenths of a pixel
gravity == IF variant = "StretchClean" THEN 3 ELSE 4

shakeThreshold == IF variant = "ShakeBasic" THEN 15 ELSE 25

slamVelocityThreshold == 500

taskbarHeight == IF variant = "ShakeBasic" THEN 60 ELSE 50

taskbarOffset == 2

\* the bottom offset of the rail: '52px', or taskbarHeight + taskbarOffset
railBottom == IF variant = "ShakePhysics" THEN Px(taskbarHeight + taskbarOffset) ELSE Px(52)

----------------------------------------------------------------------------
(* Layout: what getBoundingClientRect / offsetWidth / innerWidth return *)

maxX == Px(ViewportWidth - WindowWidth)

maxY == Px(ViewportHeight - WindowHeight)

\* top of the layout box of a position:fixed element from style.top / style.bottom
layoutTop(s) == IF s.top # Auto THEN s.top ELSE Px(ViewportHeight) - s.bottom - Px(WindowHeight)

\* ShakeBasic pins by style.top
taskbarY == Px(ViewportHeight - taskbarHeight - WindowHeight)


----------------------------------------------------------------------------
(* The stretch effect.  applyStretchEffect writes a CSS transform computed  *)
(* from stretchAmount; win.fxAmount is the amount the transform on the      *)
(* element was computed from (0: no transform) and win.fxPulse the pulse    *)
(* factor, in tenths, StretchGravity multiplies scaleY by.  While the       *)
(* transform is on the element getBoundingClientRect returns the box of the *)
(* transformed element.                                                     *)

\* the values Math.sin(Date.now() * 0.03) * 0.2 + 1 is sampled at, in tenths
Pulses == IF variant = "StretchGravity" THEN {8, 12} ELSE {10}

applyStretchEffect(s, pulse) == [s EXCEPT !.fxAmount = s.stretchAmount, !.fxPulse = pulse]

resetStretchEffect(s) == [s EXCEPT !.fxAmount = 0, !.fxPulse = 10]

\* rect.left: scaleX about the centre narrows the box (StretchGravity 1 - 0.4p,
\* StretchClean 1 - 0.2p); StretchBasic skews about the centre, tan(x deg) taken as 7x/400
rectLeft(s) ==
  IF s.fxAmount = 0 THEN s.left
  ELSE CASE variant = "StretchGravity" -> s.left + (Px(WindowWidth) * s.fxAmount) \div 400
         [] variant = "StretchClean" -> s.left + (Px(WindowWidth) * s.fxAmount) \div 600
         [] OTHER -> s.left - (Px(WindowHeight) * s.fxAmount * 7) \div 16000

\* rect.top: translateY and scaleY about 'center bottom' (StretchBasic: about the centre)
rectTop(s) ==
  IF s.fxAmount = 0 THEN layoutTop(s)
  ELSE CASE variant = "StretchGravity" ->
              layoutTop(s) + Px(WindowHeight) - (Px(s.fxAmount) * 12) \div 10
                - (Px(WindowHeight) * (80 + 3 * s.fxAmount) * s.fxPulse) \div 800
         [] variant = "StretchClean" ->
              layoutTop(s) + Px(WindowHeight) - Px(s.fxAmount) \div 2
                - (Px(WindowHeight) * (600 + 8 * s.fxAmount)) \div 600
         [] OTHER ->
              layoutTop(s) - (Px(s.fxAmount) * 6) \div 10
                - (Px(WindowHeight) * s.fxAmount) \div 400

\* rect.bottom of a window that carries no transform (every caller is detached)
rectBottom(s) == layoutTop(s) + Px(WindowHeight)

----------------------------------------------------------------------------
(* Methods that move the window *)

\* moveOnTaskbarRail with the clamp of x left out
moveOnTaskbarRailUnclamped(s, x) ==
  IF variant = "ShakeBasic"
  THEN [s EXCEPT !.left = x, !.top = taskbarY]
  ELSE [s EXCEPT !.left = x, !.bottom = railBottom, !.top = Auto]

moveOnTaskbarRail(s, x) ==
  IF variant = "ShakeBasic"
  THEN [s EXCEPT !.left = Clamp(x, maxX), !.top = taskbarY]
  ELSE [s EXCEPT !.left = Clamp(x, maxX), !.bottom = railBottom, !.top = Auto]

\* moveWindowFreely writing the coordinates it is given
moveWindowFreelyUnclamped(s, x, y) ==
  IF variant = "ShakeBasic"
  THEN [s EXCEPT !.left = x, !.top = y]
  ELSE [s EXCEPT !.left = x, !.top = y, !.bottom = Auto]

moveWindowFreely(s, x, y) ==
  IF variant = "ShakeBasic"
  THEN [s EXCEPT !.left = Clamp(x, maxX), !.top = Clamp(y, maxY)]
  ELSE [s EXCEPT !.left = Clamp(x, maxX), !.top = Clamp(y, maxY), !.bottom = Auto]

snapToTaskbar(s) ==
  IF variant = "ShakeBasic"
  THEN [s EXCEPT !.top = taskbarY]
  ELSE [s EXCEPT !.bottom = railBottom, !.top = Auto]

----------------------------------------------------------------------------
(* The physics loop's timer.  win.physicsInterval is whether the field      *)
(* holds a timer id, win.liveIntervals the number of timers setInterval     *)
(* has scheduled and clearInterval has not cleared.  win.restarted is a      *)
(* history field: the handler that ran last called startPhysics while the   *)
(* field held a timer id.                                                    *)

stopPhysics(s) ==
  IF s.physicsInterval
  THEN [s EXCEPT !.physicsInterval = FALSE, !.liveIntervals = @ - 1, !.vx = 0, !.vy = 0]
  ELSE [s EXCEPT !.vx = 0, !.vy = 0]

\* startPhysics without the stopPhysics() / the early return it begins with
startPhysicsNoCancel(s) ==
  [s EXCEPT !.physicsInterval = TRUE, !.liveIntervals = @ + 1,
            !.restarted = @ \/ s.physicsInterval]

startPhysics(s) ==
  IF variant = "StretchClean"
  THEN IF s.physicsInterval THEN [s EXCEPT !.restarted = TRUE]
       ELSE [s EXCEPT !.physicsInterval = TRUE, !.liveIntervals = @ + 1]
  ELSE [stopPhysics(s) EXCEPT !.physicsInterval = TRUE, !.liveIntervals = @ + 1,
                              !.restarted = @ \/ s.physicsInterval]

----------------------------------------------------------------------------
(* Detach and reattach *)

\* detachWindow with its isDetached guard left out
detachWindowUnguarded(s) ==
  CASE variant = "ShakePhysics" ->
         [s EXCEPT !.isDetached = TRUE, !.left = rectLeft(s), !.top = rectTop(s),
                   !.bottom = Auto, !.detachedEvents = @ + 1]
    [] variant = "ShakeBasic" ->
         [s EXCEPT !.isDetached = TRUE, !.detachedEvents = @ + 1]
    [] variant = "StretchClean" ->
         [resetStretchEffect(s) EXCEPT
                   !.isDetached = TRUE, !.isStretching = FALSE,
                   !.left = rectLeft(s), !.top = rectTop(s), !.bottom = Auto,
                   !.windowStartX = rectLeft(s), !.windowStartY = rectTop(s)]
    [] OTHER ->
         [resetStretchEffect(s) EXCEPT
                   !.isDetached = TRUE, !.isStretching = FALSE,
                   !.left = rectLeft(s), !.top = rectTop(s), !.bottom = Auto,
                   !.detachedEvents = @ + 1]

\* detachWindow leaving isStretching as it finds it
detachWindowStretching(s) ==
  IF s.isDetached THEN s
  ELSE CASE variant = "ShakePhysics" ->
              [s EXCEPT !.isDetached = TRUE, !.left = rectLeft(s), !.top = rectTop(s),
                        !.bottom = Auto, !.detachedEvents = @ + 1]
         [] variant = "ShakeBasic" ->
              [s EXCEPT !.isDetached = TRUE, !.detachedEvents = @ + 1]
         [] variant = "StretchClean" ->
              [resetStretchEffect(s) EXCEPT
                        !.isDetached = TRUE,
                        !.left = rectLeft(s), !.top = rectTop(s), !.bottom = Auto,
                        !.windowStartX = rectLeft(s), !.windowStartY = rectTop(s)]
         [] OTHER ->
              [resetStretchEffect(s) EXCEPT
                        !.isDetached = TRUE,
                        !.left = rectLeft(s), !.top = rectTop(s), !.bottom = Auto,
                        !.detachedEvents = @ + 1]

detachWindow(s) ==
  IF s.isDetached THEN s
  ELSE CASE variant = "ShakePhysics" ->
              [s EXCEPT !.isDetached = TRUE, !.left = rectLeft(s), !.top = rectTop(s),
                        !.bottom = Auto, !.detachedEvents = @ + 1]
         [] variant = "ShakeBasic" ->
              [s EXCEPT !.isDetached = TRUE, !.detachedEvents = @ + 1]
         [] variant = "StretchClean" ->
              [resetStretchEffect(s) EXCEPT
                        !.isDetached = TRUE, !.isStretching = FALSE,
                        !.left = rectLeft(s), !.top = rectTop(s), !.bottom = Auto,
                        !.windowStartX = rectLeft(s), !.windowStartY = rectTop(s)]
         [] OTHER ->
              [resetStretchEffect(s) EXCEPT
                        !.isDetached = TRUE, !.isStretching = FALSE,
                        !.left = rectLeft(s), !.top = rectTop(s), !.bottom = Auto,
                        !.detachedEvents = @ + 1]

reattachWindow(s) ==
  IF ~s.isDetached THEN s
  ELSE CASE variant = "ShakePhysics" ->
              [snapToTaskbar(stopPhysics(s)) EXCEPT
                        !.isDetached = FALSE, !.reattachedEvents = @ + 1]
         [] variant = "ShakeBasic" ->
              [snapToTaskbar(s) EXCEPT !.isDetached = FALSE, !.reattachedEvents = @ + 1]
         [] variant = "StretchBasic" ->
              [resetStretchEffect(stopPhysics(s)) EXCEPT
                        !.isDetached = FALSE, !.bottom = railBottom, !.top = Auto,
                        !.reattachedEvents = @ + 1]
         [] OTHER ->
              [resetStretchEffect(stopPhysics(s)) EXCEPT
                        !.isDetached = FALSE, !.gravityEnabled = FALSE,
                        !.bottom = railBottom, !.top = Auto,
                        !.reattachedEvents = @ + 1]

----------------------------------------------------------------------------
(* The sample buffer of the shake variants.  A sample is [x, y, dt]: the    *)
(* pointer position and the milliseconds (Date.now()) since the sample      *)
(* recorded before it; the code reads times only as differences of          *)
(* neighbouring samples.                                                     *)

\* recordPosition dropping the new sample instead of the oldest
recordPositionKeepOldest(s, x, y, dt) ==
  LET pushed == Append(s.lastPositions, [x |-> x, y |-> y, dt |-> dt])
  IN [s EXCEPT !.lastPositions = IF Len(pushed) > 10 THEN SubSeq(pushed, 1, 10) ELSE pushed]

recordPosition(s, x, y, dt) ==
  LET pushed == Append(s.lastPositions, [x |-> x, y |-> y, dt |-> dt])
  IN [s EXCEPT !.lastPositions = IF Len(pushed) > 10 THEN Tail(pushed) ELSE pushed]

\* the loop of detectShake from sample i on, acc the counters it keeps
RECURSIVE shakeScan(_, _, _)
shakeScan(lp, i, acc) ==
  IF i > Len(lp) THEN acc
  ELSE LET deltaY == lp[i].y - lp[i - 1].y
           absDeltaY == Abs(deltaY)
       IN IF absDeltaY > shakeThreshold
          THEN IF deltaY < 0
               THEN shakeScan(lp, i + 1,
                      [acc EXCEPT !.verticalMovements = @ + 1,
                                  !.totalVerticalDistance = @ + absDeltaY,
                                  !.upwardMovement = @ + 1,
                                  !.maxUpwardDelta = Max(@, absDeltaY),
                                  !.consecutiveUpward = @ + 1,
                                  !.maxConsecutiveUpward = Max(@, acc.consecutiveUpward + 1)])
               ELSE shakeScan(lp, i + 1,
                      [acc EXCEPT !.verticalMovements = @ + 1,
                                  !.totalVerticalDistance = @ + absDeltaY,
                                  !.consecutiveUpward = 0])
          ELSE shakeScan(lp, i + 1, acc)

shakeAnalysis(lp) ==
  shakeScan(lp, 2, [verticalMovements |-> 0, upwardMovement |-> 0,
                    totalVerticalDistance |-> 0, maxUpwardDelta |-> 0,
                    consecutiveUpward |-> 0, maxConsecutiveUpward |-> 0])

\* detectShake deciding on the number of samples alone
shakeDetectedByCount(lp) == Len(lp) >= (IF variant = "ShakeBasic" THEN 5 ELSE 8)

\* whether detectShake calls detachWindow
shakeDetected(lp) ==
  LET a == shakeAnalysis(lp)
  IN IF variant = "ShakeBasic"
     THEN Len(lp) >= 5 /\ a.verticalMovements >= 3 /\ a.upwardMovement >= 2
     ELSE /\ Len(lp) >= 8
          /\ a.verticalMovements >= 5
          /\ a.upwardMovement >= 3
          /\ a.totalVerticalDistance > 100
          /\ a.maxUpwardDelta > 35
          /\ a.maxConsecutiveUpward >= 2

detectShake(s) == IF shakeDetected(s.lastPositions) THEN detachWindow(s) ELSE s

\* Math.sqrt in fixed point: the largest r in lo..hi with r * r <= n
RECURSIVE SqrtIn(_, _, _)
SqrtIn(n, lo, hi) ==
  IF lo >= hi THEN lo
  ELSE LET mid == (lo + hi + 1) \div 2
       IN IF mid * mid <= n THEN SqrtIn(n, mid, hi) ELSE SqrtIn(n, lo, mid - 1)

\* sqrt(dx*dx + dy*dy) pixels, in units
Distance(dx, dy) == SqrtIn((dx * dx + dy * dy) * Scale * Scale, 0, Px(ViewportWidth + ViewportHeight))

\* calculateVelocity's sums over the last (at most 3) samples
recentSamples(lp) == IF Len(lp) > 3 THEN SubSeq(lp, Len(lp) - 2, Len(lp)) ELSE lp

RECURSIVE totalDistance(_, _)
totalDistance(recent, i) ==
  IF i > Len(recent) THEN 0
  ELSE Distance(recent[i].x - recent[i - 1].x, recent[i].y - recent[i - 1].y)
         + totalDistance(recent, i + 1)

RECURSIVE totalTime(_, _)
totalTime(recent, i) ==
  IF i > Len(recent) THEN 0 ELSE recent[i].dt + totalTime(recent, i + 1)

\* a / b of JavaScript numbers for a >= 0: not finite (Infinity, NaN) when b = 0
jsDivide(a, b) ==
  IF b = 0 THEN [finite |-> FALSE, value |-> 0] ELSE [finite |-> TRUE, value |-> a \div b]

\* calculateVelocity dividing by totalTime itself
calculateVelocityNoFallback(lp) ==
  IF Len(lp) < 2 THEN [finite |-> TRUE, value |-> 0]
  ELSE LET recent == recentSamples(lp)
       IN jsDivide(totalDistance(recent, 2) * 1000, totalTime(recent, 2))

\* the number calculateVelocity returns, in units per second
calculateVelocity(lp) ==
  IF Len(lp) < 2 THEN [finite |-> TRUE, value |-> 0]
  ELSE LET recent == recentSamples(lp)
           time == IF totalTime(recent, 2) = 0 THEN 1 ELSE totalTime(recent, 2)
       IN jsDivide(totalDistance(recent, 2) * 1000, time)

\* calculateVelocity() > slamVelocityThreshold, in pixels per second:
\* totalDistance / (totalTime || 1) * 1000 > 500
slamDetected(lp) ==
  IF Len(lp) < 2 THEN FALSE
  ELSE LET recent == recentSamples(lp)
           time == IF totalTime(recent, 2) = 0 THEN 1 ELSE totalTime(recent, 2)
       IN totalDistance(recent, 2) * 1000 > slamVelocityThreshold * time * Scale

\* speed * speed of the velocity, in units squared
speedSq(s) == s.vx * s.vx + s.vy * s.vy

----------------------------------------------------------------------------
(* The reattachment policy.  win.policyBottom is a history field: the       *)
(* rect.bottom the check read when it reattached the window in the handler  *)
(* that ran last, None otherwise.                                           *)

None == 0 - 1

\* how far above the bottom of the viewport checkForSlamReattach still reattaches, in pixels
slamZone ==
  CASE variant = "ShakePhysics" -> taskbarHeight + 100
    [] variant = "ShakeBasic" -> taskbarHeight + 100
    [] variant = "StretchGravity" -> 120
    [] variant = "StretchClean" -> 100
    [] OTHER -> 80

autoZone == IF variant = "StretchGravity" THEN 100 ELSE 80

\* slamCondition with the test of rect.bottom left out
slamConditionAnywhere(s) ==
  CASE variant \in ShakeVariants -> slamDetected(s.lastPositions)
    [] variant = "StretchGravity" -> speedSq(s) > Px(3) * Px(3) \/ s.vy > 0
    [] variant = "StretchClean" -> TRUE
    [] OTHER -> speedSq(s) > Px(8) * Px(8)

\* the condition under which checkForSlamReattach calls reattachWindow
slamCondition(s) ==
  CASE variant \in ShakeVariants ->
         /\ Abs(rectBottom(s) - Px(ViewportHeight - taskbarHeight)) < Px(100)
         /\ slamDetected(s.lastPositions)
    [] variant = "StretchGravity" ->
         /\ rectBottom(s) >= Px(ViewportHeight - 120)
         /\ (speedSq(s) > Px(3) * Px(3) \/ s.vy > 0)
    [] variant = "StretchClean" ->
         rectBottom(s) >= Px(ViewportHeight - 100)
    [] OTHER ->
         /\ Abs(rectBottom(s) - Px(ViewportHeight)) < Px(80)
         /\ speedSq(s) > Px(8) * Px(8)

checkForSlamReattach(s) ==
  IF slamCondition(s) /\ s.isDetached
  THEN [reattachWindow(s) EXCEPT !.policyBottom = rectBottom(s)]
  ELSE s

autoCondition(s) ==
  /\ rectBottom(s) >= Px(ViewportHeight - autoZone)
  /\ speedSq(s) < Px(2) * Px(2)

checkForAutoReattach(s) ==
  IF autoCondition(s) /\ s.isDetached
  THEN [reattachWindow(s) EXCEPT !.policyBottom = rectBottom(s)]
  ELSE s

----------------------------------------------------------------------------
(* The snap-back animation: snapBack schedules one timeout (300 or 500 ms); *)
(* win.snapTimers counts the timeouts scheduled and not yet run.            *)

\* snapBack with the setTimeout left out
snapBackNoTimer(s) == resetStretchEffect(s)

snapBack(s) == [resetStretchEffect(s) EXCEPT !.snapTimers = @ + 1]

\* the callback snapBack passes to setTimeout
snapBackTimeout(s) == [s EXCEPT !.isStretching = FALSE, !.stretchAmount = 0, !.snapTimers = @ - 1]

----------------------------------------------------------------------------
(* Pointer handlers.  (cx, cy) is e.clientX, e.clientY in pixels, dt the    *)
(* milliseconds since the previous sample, pulse the stretch pulse.          *)

NoDown == [x |-> 0, y |-> 0, left |-> 0, top |-> 0, detached |-> FALSE]

(* Persistence of the shake variants.  win.stored is what localStorage holds *)
(* under the window's id (<id>Left, <id>Top, <id>Detached; hasLeft / hasTop *)
(* tell whether the item exists), win.saves the number of times              *)
(* saveWindowPosition has written it.  The windows have an id.              *)

NoStored == [hasLeft |-> FALSE, hasTop |-> FALSE, left |-> 0, top |-> 0, detached |-> FALSE]

\* saveWindowPosition writing nothing
saveWindowPositionSkipped(s) == s

saveWindowPosition(s) ==
  [s EXCEPT !.stored = [hasLeft |-> TRUE, hasTop |-> TRUE, left |-> s.left, top |-> s.top,
                        detached |-> s.isDetached],
            !.saves = @ + 1]

startDrag(s, cx, cy) ==
  CASE variant = "ShakePhysics" ->
         recordPosition([s EXCEPT !.isDragging = TRUE, !.lastPositions = <<>>,
                                  !.lastMouseX = cx, !.lastMouseY = cy], cx, cy, 0)
    [] variant = "ShakeBasic" ->
         recordPosition([s EXCEPT !.isDragging = TRUE, !.lastPositions = <<>>,
                                  !.dragOffsetX = Px(cx) - rectLeft(s),
                                  !.dragOffsetY = Px(cy) - rectTop(s)], cx, cy, 0)
    [] variant = "StretchClean" ->
         [s EXCEPT !.isDragging = TRUE, !.isStretching = FALSE, !.stretchAmount = 0,
                   !.dragStartX = cx, !.dragStartY = cx,
                   !.windowStartX = rectLeft(s), !.windowStartY = rectTop(s),
                   !.stretchStartY = cy]
    [] OTHER ->
         [s EXCEPT !.isDragging = TRUE, !.isStretching = FALSE, !.stretchAmount = 0,
                   !.stretchStartY = cy, !.lastMouseX = cx, !.lastMouseY = cy]

\* dragAttached detaching only above snapThreshold (> for >=)
dragAttachedLate(s, cy, pulse, newX) ==
  LET upwardDistance == s.stretchStartY - cy
  IN IF upwardDistance > 10
     THEN LET stretched == applyStretchEffect(
                             [s EXCEPT !.isStretching = TRUE,
                                       !.stretchAmount = Min(upwardDistance, maxStretch)],
                             pulse)
          IN IF stretched.stretchAmount > snapThreshold
             THEN detachWindow(stretched)
             ELSE stretched
     ELSE LET sliding == resetStretchEffect(
                           [s EXCEPT !.isStretching = FALSE, !.stretchAmount = 0])
          IN moveOnTaskbarRail(sliding, newX)

\* dragAttached with Math.min(upwardDistance, maxStretch) left out
dragAttachedUnclamped(s, cy, pulse, newX) ==
  LET upwardDistance == s.stretchStartY - cy
  IN IF upwardDistance > 10
     THEN LET stretched == applyStretchEffect(
                             [s EXCEPT !.isStretching = TRUE,
                                       !.stretchAmount = upwardDistance],
                             pulse)
          IN IF stretched.stretchAmount >= snapThreshold
             THEN detachWindow(stretched)
             ELSE stretched
     ELSE LET sliding == resetStretchEffect(
                           [s EXCEPT !.isStretching = FALSE, !.stretchAmount = 0])
          IN moveOnTaskbarRail(sliding, newX)

\* the attached branch of the stretch variants' drag; newX is the argument of
\* moveOnTaskbarRail, which the code computes after resetStretchEffect
dragAttached(s, cy, pulse, newX) ==
  LET upwardDistance == s.stretchStartY - cy
  IN IF upwardDistance > 10
     THEN LET stretched == applyStretchEffect(
                             [s EXCEPT !.isStretching = TRUE,
                                       !.stretchAmount = Min(upwardDistance, maxStretch)],
                             pulse)
          IN IF stretched.stretchAmount >= snapThreshold
             THEN detachWindow(stretched)
             ELSE stretched
     ELSE LET sliding == resetStretchEffect(
                           [s EXCEPT !.isStretching = FALSE, !.stretchAmount = 0])
          IN moveOnTaskbarRail(sliding, newX)

dragShakePhysics(s, cx, cy, dt) ==
  LET r == recordPosition(s, cx, cy, dt)
      deltaX == cx - r.lastMouseX
      deltaY == cy - r.lastMouseY
      tracked == IF r.isDetached
                 THEN [r EXCEPT !.vx = (Px(deltaX) * responsiveness) \div 10,
                                !.vy = (Px(deltaY) * responsiveness) \div 10,
                                !.lastMouseX = cx, !.lastMouseY = cy]
                 ELSE [r EXCEPT !.lastMouseX = cx, !.lastMouseY = cy]
      newX == rectLeft(tracked) + Px(deltaX)
      newY == rectTop(tracked) + Px(deltaY)
  IN IF tracked.isDetached
     THEN moveWindowFreely(tracked, newX, newY)
     ELSE detectShake(moveOnTaskbarRail(tracked, newX))

dragShakeBasic(s, cx, cy, dt) ==
  LET r == recordPosition(s, cx, cy, dt)
  IN IF r.isDetached
     THEN moveWindowFreely(r, Px(cx) - r.dragOffsetX, Px(cy) - r.dragOffsetY)
     ELSE detectShake(moveOnTaskbarRail(r, Px(cx) - r.dragOffsetX))

dragStretchClean(s, cx, cy, pulse) ==
  LET deltaX == cx - s.dragStartX
      deltaY == cy - s.dragStartY
  IN IF s.isDetached
     THEN [moveWindowFreely(s, s.windowStartX + Px(deltaX), s.windowStartY + Px(deltaY))
             EXCEPT !.vx = (Px(deltaX) * responsiveness) \div 10,
                    !.vy = (Px(deltaY) * responsiveness) \div 10]
     ELSE dragAttached(s, cy, pulse, s.windowStartX + Px(deltaX))

dragStretch(s, cx, cy, pulse) ==
  LET deltaX == cx - s.lastMouseX
      deltaY == cy - s.lastMouseY
      tracked == IF s.isDetached
                 THEN [s EXCEPT !.vx = (Px(deltaX) * responsiveness) \div 10,
                                !.vy = (Px(deltaY) * responsiveness) \div 10,
                                !.lastMouseX = cx, !.lastMouseY = cy]
                 ELSE [s EXCEPT !.lastMouseX = cx, !.lastMouseY = cy]
  IN IF tracked.isDetached
     THEN moveWindowFreely(tracked, rectLeft(tracked) + Px(deltaX), rectTop(tracked) + Px(deltaY))
     ELSE dragAttached(tracked, cy, pulse, rectLeft(resetStretchEffect(tracked)) + Px(deltaX))

\* drag without its isDragging guard
dragUnguarded(s, cx, cy, dt, pulse) ==
  CASE variant = "ShakePhysics" -> dragShakePhysics(s, cx, cy, dt)
    [] variant = "ShakeBasic" -> dragShakeBasic(s, cx, cy, dt)
    [] variant = "StretchClean" -> dragStretchClean(s, cx, cy, pulse)
    [] OTHER -> dragStretch(s, cx, cy, pulse)

drag(s, cx, cy, dt, pulse) ==
  IF ~s.isDragging THEN s
  ELSE CASE variant = "ShakePhysics" -> dragShakePhysics(s, cx, cy, dt)
         [] variant = "ShakeBasic" -> dragShakeBasic(s, cx, cy, dt)
         [] variant = "StretchClean" -> dragStretchClean(s, cx, cy, pulse)
         [] OTHER -> dragStretch(s, cx, cy, pulse)

endDrag(s) ==
  IF ~s.isDragging THEN s
  ELSE LET up == [s EXCEPT !.isDragging = FALSE, !.down = NoDown]
       IN CASE variant = "ShakePhysics" ->
                 saveWindowPosition(IF up.isDetached
                                    THEN startPhysics(checkForSlamReattach(up))
                                    ELSE stopPhysics(up))
            [] variant = "ShakeBasic" ->
                 saveWindowPosition(IF up.isDetached THEN checkForSlamReattach(up) ELSE up)
            [] OTHER ->
                 IF up.isStretching /\ ~up.isDetached
                 THEN snapBack(up)
                 ELSE IF up.isDetached
                      THEN checkForSlamReattach(startPhysics(up))
                      ELSE up

----------------------------------------------------------------------------
(* The physics loop *)

\* bounceAxis with the friction left out
bounceAxisFrictionless(pos, v, hi) ==
  LET new == pos + v
      hit == new <= 0 \/ new >= hi
  IN [pos |-> IF new <= 0 THEN 0 ELSE IF new >= hi THEN hi ELSE new,
      v |-> IF hit THEN MulFrac(-v, bounce, 100) ELSE v]

\* bounceAxis with the clamp of the coordinate left out
bounceAxisUnclamped(pos, v, hi) ==
  LET new == pos + v
      hit == new <= 0 \/ new >= hi
      bounced == IF hit THEN MulFrac(-v, bounce, 100) ELSE v
  IN [pos |-> new, v |-> MulFrac(bounced, friction, 100)]

\* one axis of the boundary handling: the clamped coordinate and the velocity after
\* bounce and friction
bounceAxis(pos, v, hi) ==
  LET new == pos + v
      hit == new <= 0 \/ new >= hi
      bounced == IF hit THEN MulFrac(-v, bounce, 100) ELSE v
  IN [pos |-> IF new <= 0 THEN 0 ELSE IF new >= hi THEN hi ELSE new,
      v |-> MulFrac(bounced, friction, 100)]

\* updatePhysics with the "stop if very slow" test left out
\* updatePhysics writing the new position before the stop test
updatePhysicsStopAfterMove(s) ==
  IF ~s.isDetached \/ s.isDragging THEN stopPhysics(s)
  ELSE LET vy0 == IF variant \in GravityVariants /\ s.gravityEnabled
                  THEN s.vy + Px(gravity) \div 10
                  ELSE s.vy
           ax == bounceAxis(rectLeft(s), s.vx, maxX)
           ay == bounceAxis(rectTop(s), vy0, maxY)
           moved == [s EXCEPT !.vx = ax.v, !.vy = ay.v, !.left = ax.pos, !.top = ay.pos]
       IN IF Abs(ax.v) * 10 < Scale /\ Abs(ay.v) * 10 < Scale
          THEN [stopPhysics(moved) EXCEPT !.cameToRest = s.vx # 0 \/ s.vy # 0]
          ELSE IF variant \in {"ShakePhysics", "StretchBasic"}
               THEN moved
               ELSE checkForAutoReattach(moved)

updatePhysicsNoStop(s) ==
  IF ~s.isDetached \/ s.isDragging THEN stopPhysics(s)
  ELSE LET vy0 == IF variant \in GravityVariants /\ s.gravityEnabled
                  THEN s.vy + Px(gravity) \div 10
                  ELSE s.vy
           ax == bounceAxis(rectLeft(s), s.vx, maxX)
           ay == bounceAxis(rectTop(s), vy0, maxY)
           slowed == [s EXCEPT !.vx = ax.v, !.vy = ay.v]
       IN CASE variant = "ShakePhysics" ->
                 [slowed EXCEPT !.left = ax.pos, !.top = ay.pos]
            [] variant = "StretchBasic" ->
                 moveWindowFreely(slowed, ax.pos, ay.pos)
            [] OTHER ->
                 checkForAutoReattach(moveWindowFreely(slowed, ax.pos, ay.pos))

\* updatePhysics without the test of isDetached and isDragging it begins with
updatePhysicsUnguarded(s) ==
  LET vy0 == IF variant \in GravityVariants /\ s.gravityEnabled
             THEN s.vy + Px(gravity) \div 10
             ELSE s.vy
      ax == bounceAxis(rectLeft(s), s.vx, maxX)
      ay == bounceAxis(rectTop(s), vy0, maxY)
      slowed == [s EXCEPT !.vx = ax.v, !.vy = ay.v]
  IN IF Abs(ax.v) * 10 < Scale /\ Abs(ay.v) * 10 < Scale
     THEN stopPhysics(slowed)
     ELSE CASE variant = "ShakePhysics" ->
                 [slowed EXCEPT !.left = ax.pos, !.top = ay.pos]
            [] variant = "StretchBasic" ->
                 moveWindowFreely(slowed, ax.pos, ay.pos)
            [] OTHER ->
                 checkForAutoReattach(moveWindowFreely(slowed, ax.pos, ay.pos))

\* updatePhysics testing isDetached only, not isDragging
updatePhysicsWhileHeld(s) ==
  IF ~s.isDetached THEN stopPhysics(s)
  ELSE LET vy0 == IF variant \in GravityVariants /\ s.gravityEnabled
                  THEN s.vy + Px(gravity) \div 10
                  ELSE s.vy
           ax == bounceAxis(rectLeft(s), s.vx, maxX)
           ay == bounceAxis(rectTop(s), vy0, maxY)
           slowed == [s EXCEPT !.vx = ax.v, !.vy = ay.v]
       IN IF Abs(ax.v) * 10 < Scale /\ Abs(ay.v) * 10 < Scale
          THEN [stopPhysics(slowed) EXCEPT !.cameToRest = s.vx # 0 \/ s.vy # 0]
          ELSE CASE variant = "ShakePhysics" ->
                      [slowed EXCEPT !.left = ax.pos, !.top = ay.pos]
                 [] variant = "StretchBasic" ->
                      moveWindowFreely(slowed, ax.pos, ay.pos)
                 [] OTHER ->
                      checkForAutoReattach(moveWindowFreely(slowed, ax.pos, ay.pos))

updatePhysics(s) ==
  IF ~s.isDetached \/ s.isDragging THEN stopPhysics(s)
  ELSE LET vy0 == IF variant \in GravityVariants /\ s.gravityEnabled
                  THEN s.vy + Px(gravity) \div 10
                  ELSE s.vy
           ax == bounceAxis(rectLeft(s), s.vx, maxX)
           ay == bounceAxis(rectTop(s), vy0, maxY)
           slowed == [s EXCEPT !.vx = ax.v, !.vy = ay.v]
       IN IF Abs(ax.v) * 10 < Scale /\ Abs(ay.v) * 10 < Scale
          THEN [stopPhysics(slowed) EXCEPT !.cameToRest = s.vx # 0 \/ s.vy # 0]
          ELSE CASE variant = "ShakePhysics" ->
                      [slowed EXCEPT !.left = ax.pos, !.top = ay.pos]
                 [] variant = "StretchBasic" ->
                      moveWindowFreely(slowed, ax.pos, ay.pos)
                 [] OTHER ->
                      checkForAutoReattach(moveWindowFreely(slowed, ax.pos, ay.pos))

\* toggleGravity without its isDetached guard
toggleGravityUnguarded(s) ==
  LET g == [s EXCEPT !.gravityEnabled = ~@]
  IN IF variant = "StretchClean"
     THEN IF g.gravityEnabled THEN startPhysics(g) ELSE g
     ELSE IF g.gravityEnabled /\ ~g.physicsInterval THEN startPhysics(g) ELSE g

toggleGravity(s) ==
  IF ~s.isDetached THEN s
  ELSE LET g == [s EXCEPT !.gravityEnabled = ~@]
       IN IF variant = "StretchClean"
          THEN IF g.gravityEnabled THEN startPhysics(g) ELSE g
          ELSE IF g.gravityEnabled /\ ~g.physicsInterval THEN startPhysics(g) ELSE g

\* the dblclick listener of ShakePhysics, with e.shiftKey held
shiftDblClick(s) == IF ~s.isDetached THEN detachWindow(s) ELSE reattachWindow(s)

----------------------------------------------------------------------------
(* Construction *)

\* the layout the host page gives a window: docked on the rail
InitLefts == {Px(20)}

\* the left of the second window of the page
OtherLeft == 0

constructed(left) ==
  [isDetached |-> FALSE, isDragging |-> FALSE, isStretching |-> FALSE,
   stretchStartY |-> 0, stretchAmount |-> 0,
   lastMouseX |-> 0, lastMouseY |-> 0,
   dragStartX |-> 0, dragStartY |-> 0, windowStartX |-> 0, windowStartY |-> 0,
   dragOffsetX |-> 0, dragOffsetY |-> 0,
   lastPositions |-> <<>>,
   vx |-> 0, vy |-> 0, gravityEnabled |-> FALSE,
   physicsInterval |-> FALSE, liveIntervals |-> 0,
   left |-> left,
   top |-> IF variant = "ShakeBasic" THEN taskbarY ELSE Auto,
   bottom |-> IF variant = "ShakeBasic" THEN Auto ELSE railBottom,
   fxAmount |-> 0, fxPulse |-> 10,
   snapTimers |-> 0, detachedEvents |-> 0, reattachedEvents |-> 0,
   policyBottom |-> None, releasedStill |-> FALSE, restarted |-> FALSE,
   cameToRest |-> FALSE, stored |-> NoStored, saves |-> 0,
   hasTitleBar |-> TRUE, listenerOnHandle |-> variant # "ShakeBasic", down |-> NoDown,
   windowPhysics |-> TRUE, controllers |-> 1, displayNone |-> FALSE]

\* the controller of a window in which init finds no title bar element
constructedBare(left) == [constructed(left) EXCEPT !.hasTitleBar = FALSE]

\* what an earlier page load may have left in localStorage for the window's id
StoredStates ==
  IF variant \in ShakeVariants
  THEN {NoStored,
        [hasLeft |-> TRUE, hasTop |-> TRUE, left |-> Px(30), top |-> Px(80), detached |-> TRUE]}
  ELSE {NoStored}

\* a store in which one of the two coordinates is missing
PartialStores ==
  {[hasLeft |-> TRUE, hasTop |-> FALSE, left |-> Px(30), top |-> 0, detached |-> TRUE],
   [hasLeft |-> FALSE, hasTop |-> TRUE, left |-> 0, top |-> Px(80), detached |-> TRUE]}

loadWindowPosition(s, stored) ==
  LET r == [s EXCEPT !.stored = stored]
  IN IF ~(stored.hasLeft /\ stored.hasTop) THEN r
     ELSE [r EXCEPT !.left = stored.left, !.top = stored.top,
                    !.isDetached = IF stored.detached THEN TRUE ELSE @]

----------------------------------------------------------------------------
(* Inputs *)

\* e.clientX, e.clientY of the pointer events, in pixels
PointerXs == {50, 100}

PointerYs == IF variant \in ShakeVariants THEN {90, 200} ELSE {110, 140, 160, 190, 200, 290}

\* milliseconds between two samples
Dts == IF variant \in ShakeVariants THEN {0, 200} ELSE {0}

\* height of the drag handle at the top of the window, in pixels
TitleBarHeight == 30

onTitleBar(s, cx, cy) ==
  /\ rectLeft(s) <= Px(cx) /\ Px(cx) <= rectLeft(s) + Px(WindowWidth)
  /\ rectTop(s) <= Px(cy) /\ Px(cy) <= rectTop(s) + Px(TitleBarHeight)

\* the state a handler starts from; win.releasedStill is a history field: the
\* pointer-up handled last found the window detached, inside the dock zone, with
\* velocity (0, 0) and a pointer at rest, and only timer ticks have run since
begin(s) ==
  [s EXCEPT !.policyBottom = None, !.releasedStill = FALSE, !.restarted = FALSE,
            !.cameToRest = FALSE]

beginTick(s) == [s EXCEPT !.policyBottom = None, !.restarted = FALSE, !.cameToRest = FALSE]

\* calculateVelocity() = 0: fewer than two samples, or no distance between them
pointerStill(lp) == Len(lp) < 2 \/ totalDistance(recentSamples(lp), 2) = 0

\* the bottom edge is less than the zone height of the release check above the
\* bottom of the viewport
inDockZone(s) == Px(ViewportHeight) - rectBottom(s) < Px(slamZone)

stillInDockZone(s) ==
  /\ s.isDetached
  /\ s.vx = 0 /\ s.vy = 0
  /\ pointerStill(s.lastPositions)
  /\ inDockZone(s)

----------------------------------------------------------------------------
(* Specification *)

Init ==
  /\ variant \in Variants
  /\ \E left \in InitLefts, stored \in StoredStates :
       win = loadWindowPosition(constructed(left), stored)
  /\ other = constructed(OtherLeft)
  /\ pointer = <<0, 0>>
  /\ drags = 0
  /\ clicks = 0
  /\ ticks = 0
  /\ lastOp = "init"

\* mousedown with the listener registered although init found no title bar
mousedownUnguarded(s, cx, cy) == IF onTitleBar(s, cx, cy) THEN startDrag(s, cx, cy) ELSE s

\* a mousedown at (cx, cy): the title bar's listener, if init registered one on
\* the element that is in the document.  win.listenerOnHandle is false in
\* ShakeBasic: overrideDragHandlers replaces the title bar by a clone and init
\* adds the listener to the element it took out of the document.
mousedown(s, cx, cy) ==
  IF s.hasTitleBar /\ s.listenerOnHandle /\ onTitleBar(s, cx, cy)
  THEN startDrag(s, cx, cy)
  ELSE s

StartDrag ==
  /\ ~win.isDragging
  /\ drags < MaxDrags
  /\ \E cx \in PointerXs, cy \in PointerYs :
       /\ onTitleBar(win, cx, cy)
       /\ win' = mousedown(begin(win), cx, cy)
       /\ pointer' = <<cx, cy>>
  /\ drags' = drags + 1
  /\ lastOp' = IF win'.isDragging THEN "startDrag" ELSE "mousedown"
  /\ UNCHANGED <<variant, other, clicks, ticks>>

\* the pulse is read by applyStretchEffect, which the detached branch of drag
\* does not call
Drag ==
  /\ win.isDragging
  /\ variant \in ShakeVariants => Len(win.lastPositions) < MaxSamples
  /\ \E cx \in PointerXs, cy \in PointerYs, dt \in Dts,
        pulse \in (IF win.isDetached THEN {10} ELSE Pulses) :
       /\ win' = drag(begin(win), cx, cy, dt, pulse)
       /\ pointer' = <<cx, cy>>
  /\ lastOp' = "drag"
  /\ UNCHANGED <<variant, other, drags, clicks, ticks>>

EndDrag ==
  /\ win.isDragging
  /\ win' = [endDrag(begin(win)) EXCEPT !.releasedStill = stillInDockZone(win)]
  /\ lastOp' = "endDrag"
  /\ UNCHANGED <<variant, other, pointer, drags, clicks, ticks>>

SnapBackTimeout ==
  /\ win.snapTimers > 0
  /\ win' = snapBackTimeout(begin(win))
  /\ lastOp' = "snapBackTimeout"
  /\ UNCHANGED <<variant, other, pointer, drags, clicks, ticks>>

Tick ==
  /\ win.physicsInterval
  /\ ticks < MaxTicks
  /\ win' = updatePhysics(beginTick(win))
  /\ ticks' = ticks + 1
  /\ lastOp' = "updatePhysics"
  /\ UNCHANGED <<variant, other, pointer, drags, clicks>>

ToggleGravity ==
  /\ variant \in GravityVariants
  /\ win.isDetached
  /\ clicks < MaxClicks
  /\ win' = toggleGravity(begin(win))
  /\ clicks' = clicks + 1
  /\ lastOp' = "toggleGravity"
  /\ UNCHANGED <<variant, other, pointer, drags, ticks>>

ShiftDblClick ==
  /\ variant = "ShakePhysics"
  /\ clicks < MaxClicks
  /\ win' = shiftDblClick(begin(win))
  /\ clicks' = clicks + 1
  /\ lastOp' = "shiftDblClick"
  /\ UNCHANGED <<variant, other, pointer, drags, ticks>>

Next ==
  \/ StartDrag
  \/ Drag
  \/ EndDrag
  \/ SnapBackTimeout
  \/ Tick
  \/ ToggleGravity
  \/ ShiftDblClick

Spec == Init /\ [][Next]_vars

----------------------------------------------------------------------------
(* The controller is reachable from the page as element.windowPhysics, so   *)
(* its methods can be called directly.  SpecApi adds to the handlers a      *)
(* direct call of detachWindow on a window that is detached already.         *)

DetachWindow ==
  /\ win.isDetached
  /\ win' = detachWindow(begin(win))
  /\ lastOp' = "detachWindow"
  /\ UNCHANGED <<variant, other, pointer, drags, clicks, ticks>>

NextApi ==
  \/ Next
  \/ DetachWindow

SpecApi == Init /\ [][NextApi]_vars

----------------------------------------------------------------------------
(* The physics loop on its own: updatePhysics as a function of the state    *)
(* the timer finds, from a detached window that is not being dragged, with  *)
(* gravity off, the timer running and the velocity drag computes from a      *)
(* pointer delta.  No pointer event arrives; the ticks are not counted.      *)

\* pointer deltas of the move before the release, in pixels
ThrowDeltas == {0 - 40, 0, 3, 25}

ThrowLefts == {0, maxX}

ThrowTops == {Px(100), maxY}

thrown(left, top, deltaX, deltaY) ==
  [constructed(left) EXCEPT !.isDetached = TRUE, !.top = top, !.bottom = Auto,
                            !.vx = (Px(deltaX) * responsiveness) \div 10,
                            !.vy = (Px(deltaY) * responsiveness) \div 10,
                            !.physicsInterval = TRUE, !.liveIntervals = 1]

InitPhysics ==
  /\ variant \in PhysicsVariants
  /\ \E left \in ThrowLefts, top \in ThrowTops, deltaX \in ThrowDeltas, deltaY \in ThrowDeltas :
       win = thrown(left, top, deltaX, deltaY)
  /\ other = constructed(OtherLeft)
  /\ pointer = <<0, 0>>
  /\ drags = 0
  /\ clicks = 0
  /\ ticks = 0
  /\ lastOp = "thrown"

Loop ==
  /\ win.physicsInterval
  /\ win' = updatePhysics(beginTick(win))
  /\ lastOp' = "updatePhysics"
  /\ UNCHANGED <<variant, other, pointer, drags, clicks, ticks>>

SpecPhysics == InitPhysics /\ [][Loop]_vars

\* setInterval keeps calling the callback until clearInterval
FairPhysics == SpecPhysics /\ WF_vars(Loop)

----------------------------------------------------------------------------
(* updatePhysics as a function of a state with a given velocity: the        *)
(* controller is reachable as element.windowPhysics and velocity is a plain *)
(* field, so the loop can find any velocity there.  The window is detached,  *)
(* not dragged, gravity off, the timer running.                              *)

\* velocity components, in pixels per tick
BounceVelocities == {0 - 5, 0, 2, 5}

BounceLefts == {0, Px(15), maxX}

BounceTops == {Px(100), maxY}

InitBounce ==
  /\ variant \in PhysicsVariants
  /\ \E left \in BounceLefts, top \in BounceTops, vx \in BounceVelocities, vy \in BounceVelocities :
       win = [constructed(left) EXCEPT !.isDetached = TRUE, !.top = top, !.bottom = Auto,
                                       !.vx = Px(vx), !.vy = Px(vy),
                                       !.physicsInterval = TRUE, !.liveIntervals = 1]
  /\ other = constructed(OtherLeft)
  /\ pointer = <<0, 0>>
  /\ drags = 0
  /\ clicks = 0
  /\ ticks = 0
  /\ lastOp = "thrown"

SpecBounce == InitBounce /\ [][Loop]_vars

----------------------------------------------------------------------------
(* Several drag sessions of a variant with a physics loop: a second         *)
(* pointer-down can arrive while the snap-back timeout of the session       *)
(* before is pending or while the loop it started is running.  The pointer  *)
(* stays in one column.                                                      *)

SessionX == 50

SessionYs == {140, 160, 190, 200}

InitSessions ==
  /\ variant \in PhysicsVariants
  /\ \E left \in InitLefts, stored \in StoredStates :
       win = loadWindowPosition(constructed(left), stored)
  /\ other = constructed(OtherLeft)
  /\ pointer = <<0, 0>>
  /\ drags = 0
  /\ clicks = 0
  /\ ticks = 0
  /\ lastOp = "init"

SessionStart ==
  /\ ~win.isDragging
  /\ drags < MaxSessions
  /\ \E cy \in SessionYs :
       /\ onTitleBar(win, SessionX, cy)
       /\ win' = mousedown(begin(win), SessionX, cy)
       /\ pointer' = <<SessionX, cy>>
  /\ drags' = drags + 1
  /\ lastOp' = IF win'.isDragging THEN "startDrag" ELSE "mousedown"
  /\ UNCHANGED <<variant, other, clicks, ticks>>

SessionMove ==
  /\ win.isDragging
  /\ variant \in ShakeVariants => Len(win.lastPositions) < MaxSamples
  /\ \E cy \in SessionYs, dt \in Dts, pulse \in Pulses :
       /\ win' = drag(begin(win), SessionX, cy, dt, pulse)
       /\ pointer' = <<SessionX, cy>>
  /\ lastOp' = "drag"
  /\ UNCHANGED <<variant, other, drags, clicks, ticks>>

NextSessions ==
  \/ SessionStart
  \/ SessionMove
  \/ EndDrag
  \/ SnapBackTimeout
  \/ Tick
  \/ ToggleGravity
  \/ ShiftDblClick

SpecSessions == InitSessions /\ [][NextSessions]_vars

----------------------------------------------------------------------------
(* A page with two windows.  Each controller registers its own mousemove    *)
(* and mouseup listeners on the document, so both controllers handle every  *)
(* such event; mousedown reaches the title bar under the pointer only, here *)
(* the first window's.  The second window is docked, or floating after a    *)
(* throw with its loop running, or released from a stretch with its         *)
(* snap-back timeout pending; it has its own timers.                         *)

OtherStates ==
  {constructed(OtherLeft)}
  \cup {[constructed(Px(10)) EXCEPT !.isDetached = TRUE, !.top = Px(100), !.bottom = Auto,
                                    !.vx = IF variant \in PhysicsVariants THEN Px(2) ELSE 0,
                                    !.physicsInterval = variant \in PhysicsVariants,
                                    !.liveIntervals = IF variant \in PhysicsVariants THEN 1 ELSE 0]}
  \cup (IF variant \in StretchVariants
        THEN {[constructed(OtherLeft) EXCEPT !.isStretching = TRUE, !.stretchAmount = 30,
                                            !.snapTimers = 1]}
        ELSE {})

InitPage ==
  /\ variant \in Variants
  /\ \E left \in InitLefts, stored \in StoredStates :
       win = loadWindowPosition(constructed(left), stored)
  /\ other \in OtherStates
  /\ pointer = <<0, 0>>
  /\ drags = 0
  /\ clicks = 0
  /\ ticks = 0
  /\ lastOp = "init"

PageMouseDown ==
  /\ ~win.isDragging
  /\ drags < MaxDrags
  /\ \E cy \in SessionYs :
       /\ onTitleBar(win, SessionX, cy)
       /\ win' = mousedown(begin(win), SessionX, cy)
       /\ pointer' = <<SessionX, cy>>
  /\ drags' = drags + 1
  /\ lastOp' = IF win'.isDragging THEN "startDrag" ELSE "mousedown"
  /\ UNCHANGED <<variant, other, clicks, ticks>>

PageMouseMove ==
  /\ (variant \in ShakeVariants /\ win.isDragging) => Len(win.lastPositions) < MaxSamples
  /\ \E cy \in SessionYs, dt \in Dts, pulse \in Pulses :
       /\ win' = drag(begin(win), SessionX, cy, dt, pulse)
       /\ other' = drag(other, SessionX, cy, dt, pulse)
       /\ pointer' = <<SessionX, cy>>
  /\ lastOp' = "drag"
  /\ UNCHANGED <<variant, drags, clicks, ticks>>

PageMouseUp ==
  /\ win' = [endDrag(begin(win)) EXCEPT !.releasedStill = win.isDragging /\ stillInDockZone(win)]
  /\ other' = endDrag(other)
  /\ lastOp' = "endDrag"
  /\ UNCHANGED <<variant, pointer, drags, clicks, ticks>>

OtherTick ==
  /\ other.physicsInterval
  /\ ticks < MaxTicks
  /\ other' = updatePhysics(other)
  /\ ticks' = ticks + 1
  /\ lastOp' = "otherUpdatePhysics"
  /\ UNCHANGED <<variant, win, pointer, drags, clicks>>

OtherSnapBackTimeout ==
  /\ other.snapTimers > 0
  /\ other' = snapBackTimeout(other)
  /\ lastOp' = "otherSnapBackTimeout"
  /\ UNCHANGED <<variant, win, pointer, drags, clicks, ticks>>

NextPage ==
  \/ PageMouseDown
  \/ PageMouseMove
  \/ PageMouseUp
  \/ SnapBackTimeout
  \/ Tick
  \/ OtherTick
  \/ OtherSnapBackTimeout

SpecPage == InitPage /\ [][NextPage]_vars

----------------------------------------------------------------------------
(* A window without a drag handle: init finds no title bar, registers no    *)
(* mousedown or dblclick listener and logs a warning; the document          *)
(* listeners are registered all the same.  The pointer events arrive        *)
(* anywhere on the page, also where the title bar of the window would be.   *)

\* a double-click at (cx, cy), Shift held or not: the title bar's listener, if any
dblclick(s, cx, cy, shiftKey) ==
  IF ~(s.hasTitleBar /\ onTitleBar(s, cx, cy)) THEN s
  ELSE CASE variant = "ShakePhysics" -> IF shiftKey THEN shiftDblClick(s) ELSE s
         [] variant \in GravityVariants -> toggleGravity(s)
         [] OTHER -> s

InitBare ==
  /\ variant \in Variants
  /\ \E left \in InitLefts, stored \in StoredStates :
       win = loadWindowPosition(constructedBare(left), stored)
  /\ other = constructed(OtherLeft)
  /\ pointer = <<0, 0>>
  /\ drags = 0
  /\ clicks = 0
  /\ ticks = 0
  /\ lastOp = "init"

BareMouseDown ==
  /\ \E cx \in PointerXs, cy \in PointerYs :
       /\ win' = mousedown(begin(win), cx, cy)
       /\ pointer' = <<cx, cy>>
  /\ lastOp' = "mousedown"
  /\ UNCHANGED <<variant, other, drags, clicks, ticks>>

BareMouseMove ==
  /\ \E cx \in PointerXs, cy \in PointerYs, dt \in Dts, pulse \in Pulses :
       /\ win' = drag(begin(win), cx, cy, dt, pulse)
       /\ pointer' = <<cx, cy>>
  /\ lastOp' = "drag"
  /\ UNCHANGED <<variant, other, drags, clicks, ticks>>

BareMouseUp ==
  /\ win' = endDrag(begin(win))
  /\ lastOp' = "endDrag"
  /\ UNCHANGED <<variant, other, pointer, drags, clicks, ticks>>

BareDblClick ==
  /\ \E shiftKey \in BOOLEAN :
       win' = dblclick(begin(win), pointer[1], pointer[2], shiftKey)
  /\ lastOp' = "dblclick"
  /\ UNCHANGED <<variant, other, pointer, drags, clicks, ticks>>

NextBare ==
  \/ BareMouseDown
  \/ BareMouseMove
  \/ BareMouseUp
  \/ BareDblClick

SpecBare == InitBare /\ [][NextBare]_vars

----------------------------------------------------------------------------
(* The sample buffer: sessions of pointer-moves in one column, 200 ms       *)
(* apart, on a window of a shake variant.  The last session has any number *)
(* of moves; the sessions before it are cut at MaxSamples samples.         *)

SampleYs == {120, 160, 200}

SampleDown ==
  /\ ~win.isDragging
  /\ drags < MaxSessions
  /\ \E cy \in SampleYs :
       /\ onTitleBar(win, SessionX, cy)
       /\ win' = mousedown(begin(win), SessionX, cy)
       /\ pointer' = <<SessionX, cy>>
  /\ drags' = drags + 1
  /\ lastOp' = IF win'.isDragging THEN "startDrag" ELSE "mousedown"
  /\ UNCHANGED <<variant, other, clicks, ticks>>

SampleMove ==
  /\ win.isDragging
  /\ drags = MaxSessions \/ Len(win.lastPositions) < MaxSamples
  /\ \E cy \in SampleYs, dt \in Dts \ {0} :
       /\ win' = drag(begin(win), SessionX, cy, dt, 10)
       /\ pointer' = <<SessionX, cy>>
  /\ lastOp' = "drag"
  /\ UNCHANGED <<variant, other, drags, clicks, ticks>>

InitSamples ==
  /\ variant \in ShakeVariants
  /\ \E left \in InitLefts : win = constructed(left)
  /\ other = constructed(OtherLeft)
  /\ pointer = <<0, 0>>
  /\ drags = 0
  /\ clicks = 0
  /\ ticks = 0
  /\ lastOp = "init"

NextSamples ==
  \/ SampleDown
  \/ SampleMove
  \/ EndDrag

SpecSamples == InitSamples /\ [][NextSamples]_vars

----------------------------------------------------------------------------
(* The anchor of a drag: sessions of pointer-moves in which the model      *)
(* keeps, in the history field win.down, the pointer position, the window  *)
(* rectangle and the detached flag the pointer-down found.  endDrag clears *)
(* the field.                                                               *)

AnchorDown ==
  /\ ~win.isDragging
  /\ drags < MaxSessions
  /\ \E cx \in PointerXs, cy \in PointerYs :
       /\ onTitleBar(win, cx, cy)
       /\ LET r == mousedown(begin(win), cx, cy)
          IN win' = IF r.isDragging
                    THEN [r EXCEPT !.down = [x |-> cx, y |-> cy,
                                             left |-> rectLeft(win), top |-> rectTop(win),
                                             detached |-> win.isDetached]]
                    ELSE r
       /\ pointer' = <<cx, cy>>
  /\ drags' = drags + 1
  /\ lastOp' = IF win'.isDragging THEN "startDrag" ELSE "mousedown"
  /\ UNCHANGED <<variant, other, clicks, ticks>>

NextAnchor ==
  \/ AnchorDown
  \/ Drag
  \/ EndDrag

SpecAnchor == Init /\ [][NextAnchor]_vars

----------------------------------------------------------------------------
(* Dragging along the rail: one session on the docked window of a shake    *)
(* variant whose pointer-moves are drawn from RailSamples, 200 ms apart.   *)
(* From the pointer-down at y = 200 the first sample is 10px lower and to  *)
(* the right (a slide), the other two are 40px and 80px higher (a shake).  *)

RailSamples == {<<100, 210>>, <<50, 160>>, <<50, 120>>}

RailDown ==
  /\ ~win.isDragging
  /\ drags = 0
  /\ onTitleBar(win, SessionX, 200)
  /\ win' = mousedown(begin(win), SessionX, 200)
  /\ pointer' = <<SessionX, 200>>
  /\ drags' = drags + 1
  /\ lastOp' = IF win'.isDragging THEN "startDrag" ELSE "mousedown"
  /\ UNCHANGED <<variant, other, clicks, ticks>>

RailMove ==
  /\ win.isDragging
  /\ \E p \in RailSamples, dt \in Dts \ {0} :
       /\ win' = drag(begin(win), p[1], p[2], dt, 10)
       /\ pointer' = p
  /\ lastOp' = "drag"
  /\ UNCHANGED <<variant, other, drags, clicks, ticks>>

NextRail ==
  \/ RailDown
  \/ RailMove
  \/ EndDrag

SpecRail == InitSamples /\ [][NextRail]_vars

----------------------------------------------------------------------------
(* The gravity toggle: the variants with gravity register toggleGravity as  *)
(* the title bar's dblclick listener.  The double-click arrives in any      *)
(* state in which no button is held, attached or detached, on the title bar *)
(* or beside it, up to MaxClicks times, in runs of up to MaxSessions drag   *)
(* sessions.                                                               *)

InitGravity ==
  /\ variant \in GravityVariants
  /\ \E left \in InitLefts : win = constructed(left)
  /\ other = constructed(OtherLeft)
  /\ pointer = <<0, 0>>
  /\ drags = 0
  /\ clicks = 0
  /\ ticks = 0
  /\ lastOp = "init"

GravityDblClick ==
  /\ ~win.isDragging
  /\ clicks < MaxClicks
  /\ \E cy \in SessionYs :
       /\ win' = dblclick(begin(win), SessionX, cy, FALSE)
       /\ pointer' = <<SessionX, cy>>
  /\ clicks' = clicks + 1
  /\ lastOp' = "dblclick"
  /\ UNCHANGED <<variant, other, drags, ticks>>

NextGravity ==
  \/ SessionStart
  \/ SessionMove
  \/ EndDrag
  \/ SnapBackTimeout
  \/ Tick
  \/ GravityDblClick

SpecGravity == InitGravity /\ [][NextGravity]_vars

----------------------------------------------------------------------------
(* Falling under gravity: drag sessions in one column on a window of a      *)
(* variant with gravity, the double-click that toggles gravity, and the     *)
(* loop running for as long as its timer is live (the ticks are not         *)
(* counted).  The pointer heights are the rail (200), a stretch below the   *)
(* threshold (160), a detaching stretch (110) and a height near the top of  *)
(* the viewport (49).                                                        *)

FallYs == {49, 110, 160, 200}

FallDown ==
  /\ ~win.isDragging
  /\ drags < MaxSessions
  /\ \E cy \in FallYs :
       /\ onTitleBar(win, SessionX, cy)
       /\ win' = mousedown(begin(win), SessionX, cy)
       /\ pointer' = <<SessionX, cy>>
  /\ drags' = drags + 1
  /\ lastOp' = "startDrag"
  /\ UNCHANGED <<variant, other, clicks, ticks>>

FallMove ==
  /\ win.isDragging
  /\ \E cy \in FallYs, pulse \in Pulses :
       /\ win' = drag(begin(win), SessionX, cy, 0, pulse)
       /\ pointer' = <<SessionX, cy>>
  /\ lastOp' = "drag"
  /\ UNCHANGED <<variant, other, drags, clicks, ticks>>

FallDblClick ==
  /\ ~win.isDragging
  /\ clicks < MaxClicks
  /\ \E cy \in FallYs :
       /\ win' = dblclick(begin(win), SessionX, cy, FALSE)
       /\ pointer' = <<SessionX, cy>>
  /\ clicks' = clicks + 1
  /\ lastOp' = "dblclick"
  /\ UNCHANGED <<variant, other, drags, ticks>>

NextFall ==
  \/ FallDown
  \/ FallMove
  \/ EndDrag
  \/ SnapBackTimeout
  \/ FallDblClick
  \/ Loop

SpecFall == InitGravity /\ [][NextFall]_vars

\* setInterval keeps calling the callback until clearInterval
FairFall == SpecFall /\ WF_vars(Loop)

----------------------------------------------------------------------------
(* Construction of the controllers.  The record of a window element holds   *)
(* whether its windowPhysics property is set (windowPhysics), how many      *)
(* controllers have been constructed for it (controllers) and whether the   *)
(* page hides it (displayNone); for an element without a controller the     *)
(* other fields hold the element's layout and the values the constructor    *)
(* will give the controller.  initializeWindowPhysics runs in a timeout     *)
(* callback that DOM-ready, the retries, a click on a button and (in        *)
(* ShakePhysics) the mutation observer schedule: a button can be clicked at *)
(* any time, so the callback can run at any time and any number of times.   *)

\* a window element of the page before any controller is constructed for it
element(left) == [constructed(left) EXCEPT !.windowPhysics = FALSE, !.controllers = 0]

\* new WindowPhysics(e): the constructor's fields, the element's style as it is
newWindowPhysics(e) ==
  [constructed(e.left) EXCEPT !.top = e.top, !.bottom = e.bottom,
                              !.fxAmount = e.fxAmount, !.fxPulse = e.fxPulse,
                              !.stored = e.stored, !.saves = e.saves,
                              !.hasTitleBar = e.hasTitleBar,
                              !.displayNone = e.displayNone,
                              !.windowPhysics = e.windowPhysics,
                              !.controllers = e.controllers + 1]

\* the statements of the forEach callback once its test has passed
initializeWindow(e, stored) ==
  LET c == [newWindowPhysics(e) EXCEPT !.windowPhysics = TRUE]
  IN IF variant \in ShakeVariants
     THEN loadWindowPosition(c, IF e.controllers = 0 THEN stored ELSE e.stored)
     ELSE c

\* the forEach callback of initializeWindowPhysics without its test of
\* window.windowPhysics
initializeWindowPhysicsUnguarded(e, stored) ==
  IF variant = "ShakeBasic" /\ e.displayNone THEN e ELSE initializeWindow(e, stored)

\* the forEach callback of initializeWindowPhysics, for one window of the page
initializeWindowPhysics(e, stored) ==
  IF e.windowPhysics \/ (variant = "ShakeBasic" /\ e.displayNone)
  THEN e
  ELSE initializeWindow(e, stored)

\* window.debugWindowPhysics, for the chat or the iPod window
debugWindowPhysics(e) ==
  IF e.windowPhysics THEN e
  ELSE [newWindowPhysics(e) EXCEPT !.windowPhysics = TRUE]

InitPageLoad ==
  /\ variant \in Variants
  /\ \E left \in InitLefts, hidden \in BOOLEAN :
       win = [element(left) EXCEPT !.displayNone = hidden]
  /\ other = element(OtherLeft)
  /\ pointer = <<0, 0>>
  /\ drags = 0
  /\ clicks = 0
  /\ ticks = 0
  /\ lastOp = "load"

InitializeWindowPhysics ==
  /\ win.controllers < MaxControllers
  /\ other.controllers < MaxControllers
  /\ \E stored \in StoredStates :
       win' = initializeWindowPhysics(win, stored)
  /\ other' = initializeWindowPhysics(other, NoStored)
  /\ lastOp' = "initializeWindowPhysics"
  /\ UNCHANGED <<variant, pointer, drags, clicks, ticks>>

DebugWindowPhysics ==
  /\ variant # "ShakeBasic"
  /\ win.controllers < MaxControllers
  /\ other.controllers < MaxControllers
  /\ win' = debugWindowPhysics(win)
  /\ other' = debugWindowPhysics(other)
  /\ lastOp' = "debugWindowPhysics"
  /\ UNCHANGED <<variant, pointer, drags, clicks, ticks>>

\* the page shows or hides the window (style.display)
SetDisplay ==
  /\ ~win.isDragging
  /\ win' = [win EXCEPT !.displayNone = ~@]
  /\ lastOp' = "setDisplay"
  /\ UNCHANGED <<variant, other, pointer, drags, clicks, ticks>>

\* the pointer handlers exist once the constructor has registered them
NextPageLoad ==
  \/ InitializeWindowPhysics
  \/ DebugWindowPhysics
  \/ SetDisplay
  \/ (win.windowPhysics /\ ~win.displayNone /\ StartDrag)
  \/ (win.windowPhysics /\ Drag)
  \/ (win.windowPhysics /\ EndDrag)

SpecPageLoad == InitPageLoad /\ [][NextPageLoad]_vars

----------------------------------------------------------------------------
(* Persistence: the controllers of the shake variants, constructed over a   *)
(* store that holds nothing, one coordinate only, or all three items.       *)

InitStore ==
  /\ variant \in ShakeVariants
  /\ \E left \in InitLefts, stored \in StoredStates \cup PartialStores :
       win = loadWindowPosition(constructed(left), stored)
  /\ other = constructed(OtherLeft)
  /\ pointer = <<0, 0>>
  /\ drags = 0
  /\ clicks = 0
  /\ ticks = 0
  /\ lastOp = "init"

NextStore ==
  \/ StartDrag
  \/ Drag
  \/ EndDrag
  \/ Tick
  \/ ShiftDblClick

SpecStore == InitStore /\ [][NextStore]_vars

----------------------------------------------------------------------------
(* The stretch variants on their own: drag sessions in one column on a      *)
(* controller that stretches before it detaches, with its timers.           *)

InitStretch ==
  /\ variant \in StretchVariants
  /\ \E left \in InitLefts : win = constructed(left)
  /\ other = constructed(OtherLeft)
  /\ pointer = <<0, 0>>
  /\ drags = 0
  /\ clicks = 0
  /\ ticks = 0
  /\ lastOp = "init"

NextStretch ==
  \/ SessionStart
  \/ SessionMove
  \/ EndDrag
  \/ SnapBackTimeout
  \/ Tick
  \/ ToggleGravity

\* the timeout snapBack schedules does run
FairStretch == InitStretch /\ [][NextStretch]_vars /\ WF_vars(SnapBackTimeout)

----------------------------------------------------------------------------
(* Properties *)

\* the upward displacement of the pointer from where the drag started, in pixels
upward == win.stretchStartY - pointer[2]

\* C1: in every variant a pointer-move that leaves the window attached and not
\* stretching leaves it pinned to the rail (bottom 52px and top auto; in ShakeBasic
\* top = viewportHeight - taskbarHeight - windowHeight) with its left inside
\* [0, viewportWidth - windowWidth], and does not change its vertical position.
C1_RailPinned ==
  [][(lastOp' = "drag" /\ ~win'.isDetached /\ ~win'.isStretching) =>
        /\ IF variant = "ShakeBasic"
           THEN win'.top = Px(ViewportHeight - taskbarHeight - WindowHeight)
           ELSE win'.bottom = Px(52) /\ win'.top = Auto
        /\ 0 <= win'.left /\ win'.left <= Px(ViewportWidth - WindowWidth)
        /\ layoutTop(win') = layoutTop(win)]_vars

\* a slide to the right that the clamp stopped at viewportWidth - windowWidth
C1_Witness ==
  /\ lastOp = "drag" /\ ~win.isDetached /\ ~win.isStretching
  /\ win.left = maxX

\* C2 (amended): in the stretch variants, after every pointer-move handled while
\* the window is attached and dragging, stretchAmount is 0 when the upward
\* displacement is at most 10px and min(displacement, maxStretch) above that; from
\* one move to the next it does not decrease when the displacement does not.
C2_StretchAmount ==
  [][(variant \in StretchVariants /\ lastOp' = "drag" /\ ~win.isDetached) =>
        /\ win'.stretchAmount = IF upward' > 10 THEN Min(upward', maxStretch) ELSE 0
        /\ (lastOp \in {"startDrag", "drag"} /\ upward' >= upward)
             => win'.stretchAmount >= win.stretchAmount]_vars

\* a move 10px up: inside the dead zone, the amount is 0
C2_Witness ==
  /\ variant \in StretchVariants
  /\ lastOp = "drag" /\ ~win.isDetached
  /\ upward = 10 /\ win.stretchAmount = 0

\* C2 as stated: stretchAmount = min(max(0, stretchStartY - pointerY), maxStretch)
\* after every pointer-move handled while attached and dragging
C2_AsStated ==
  [][(variant \in StretchVariants /\ lastOp' = "drag" /\ ~win.isDetached) =>
        win'.stretchAmount = Min(Max(0, upward'), maxStretch)]_vars

\* C3: in every variant a call of detachWindow on a window that is detached
\* already changes no field of the controller, and no step dispatches a
\* windowDetached event unless it takes the window from attached to detached,
\* and then it dispatches one.
C3_DetachIdempotent ==
  [][/\ (lastOp' = "detachWindow" /\ win.isDetached) => win' = begin(win)
     /\ win'.detachedEvents # win.detachedEvents =>
          /\ ~win.isDetached /\ win'.isDetached
          /\ win'.detachedEvents = win.detachedEvents + 1]_vars

\* detachWindow was called in the middle of a drag that had detached the window
C3_Witness ==
  /\ lastOp = "detachWindow"
  /\ win.isDetached /\ win.isDragging
  /\ win.detachedEvents = 1

\* C4: in the stretch variants an attached window becomes detached in a step
\* exactly when the step is a pointer-move whose upward displacement from the
\* start of the drag is at least snapThreshold: at the first such move, at no
\* earlier move, and not at pointer-up.
C4_DetachAtThreshold ==
  [][(variant \in StretchVariants /\ ~win.isDetached) =>
        (win'.isDetached <=> (lastOp' = "drag" /\ upward' >= snapThreshold))]_vars

\* with snapThreshold 60 and maxStretch 80, detached by the move that is 60px up
C4_Witness ==
  /\ snapThreshold = 60 /\ maxStretch = 80
  /\ lastOp = "drag" /\ win.isDetached
  /\ upward = 60 /\ win.stretchAmount = 60

\* whether the rail position and the untransformed box are restored
restored(s) ==
  /\ ~s.isDetached
  /\ ~s.isStretching /\ s.stretchAmount = 0
  /\ s.fxAmount = 0
  /\ s.bottom = Px(52) /\ s.top = Auto

\* C5: in the stretch variants, a pointer-up while the window is attached and
\* stretching below snapThreshold leads to a state where the window is attached,
\* isStretching is false, stretchAmount is 0 and the transform is cleared on the
\* rail, unless a new drag starts first.
C5_SnapBack ==
  (/\ variant \in StretchVariants
   /\ lastOp = "endDrag"
   /\ ~win.isDetached /\ win.isStretching /\ win.stretchAmount < snapThreshold)
    ~> (restored(win) \/ lastOp = "startDrag")

\* released at a stretch of 40 below a threshold of 60: the timeout is pending
C5_Witness ==
  /\ snapThreshold = 60
  /\ lastOp = "endDrag"
  /\ ~win.isDetached /\ win.isStretching /\ win.stretchAmount = 40
  /\ win.snapTimers = 1

\* whether one friction step leaves a component of the velocity at 0.1 or more
survivesFriction(s) ==
  \/ Abs(MulFrac(s.vx, friction, 100)) * 10 >= Scale
  \/ Abs(MulFrac(s.vy, friction, 100)) * 10 >= Scale

\* C6: in every variant with a physics loop, a pointer-up that leaves a window
\* detached, with a velocity that survives one friction step, starts the loop
\* with that velocity.
C6_ReleaseKeepsVelocity ==
  [][(/\ variant \in PhysicsVariants
      /\ lastOp' = "endDrag"
      /\ win.isDetached /\ win'.isDetached
      /\ survivesFriction(win)) =>
        /\ win'.physicsInterval
        /\ win'.vx = win.vx /\ win'.vy = win.vy]_vars

\* C7: a detached window released inside the dock zone with velocity (0, 0) is
\* attached once the pointer-up and the ticks of the loop it started are over.
C7_StillReleaseReattaches ==
  (win.releasedStill /\ ~win.physicsInterval) => ~win.isDetached

\* C8: in every variant, when checkForSlamReattach (at pointer-up) or
\* checkForAutoReattach (in a tick) reattaches the window, the bottom edge it
\* read is no further from the bottom of the viewport than the height of the
\* check's dock zone.
C8_NoReattachOutsideZone ==
  win.policyBottom # None =>
    /\ ~win.isDetached
    /\ Px(ViewportHeight) - win.policyBottom
         <= Px(IF lastOp = "updatePhysics" THEN autoZone ELSE slamZone)

\* a tick reattached a window whose bottom edge was above the bottom of the viewport
C8_Witness ==
  /\ win.policyBottom # None
  /\ lastOp = "updatePhysics"
  /\ win.policyBottom < Px(ViewportHeight)
  /\ win.reattachedEvents = 1

\* C9: in every variant with a physics loop, with gravity off and no pointer
\* events, the loop ends: the timer is cleared and the velocity is (0, 0).
C9_LoopTerminates == <>(~win.physicsInterval /\ win.vx = 0 /\ win.vy = 0)

\* the loop has stopped a window in flight, away from where it was released
C9_Witness ==
  /\ lastOp = "updatePhysics"
  /\ win.isDetached /\ ~win.physicsInterval
  /\ win.vx = 0 /\ win.vy = 0
  /\ win.left \notin ThrowLefts /\ win.top \notin ThrowTops

\* C10: in every variant with a physics loop, with gravity off, a tick that
\* starts with a non-zero velocity ends with a strictly smaller speed.
C10_SpeedDecreases ==
  [][(/\ lastOp' = "updatePhysics"
      /\ ~win.gravityEnabled
      /\ (win.vx # 0 \/ win.vy # 0)) =>
        speedSq(win') < speedSq(win)]_vars

\* the loop is still running after a bounce off the right edge
C10_Witness ==
  /\ lastOp = "updatePhysics"
  /\ win.physicsInterval
  /\ win.left = maxX /\ win.vx < 0

Docked(s) == ~s.isDetached /\ ~s.isStretching

Stretching(s) == ~s.isDetached /\ s.isStretching

DetachedHeld(s) == s.isDetached /\ s.isDragging

DetachedFree(s) == s.isDetached /\ ~s.isDragging

\* C12: in every reachable state of every stretch variant isStretching and
\* isDetached are not both true, and the window is in exactly one of Docked,
\* Stretching, Detached-Held and Detached-Free, the detached flag being true
\* exactly in the last two.
C12_ExactlyOneState ==
  variant \in StretchVariants =>
    /\ ~(win.isStretching /\ win.isDetached)
    /\ Cardinality({i \in 1..4 : <<Docked(win), Stretching(win),
                                    DetachedHeld(win), DetachedFree(win)>>[i]}) = 1
    /\ win.isDetached <=> (DetachedHeld(win) \/ DetachedFree(win))

\* a stretch of the second session detached the window while the snap-back
\* timeout of the first was pending
C12_Witness ==
  /\ variant \in StretchVariants
  /\ lastOp = "drag" /\ drags = 2
  /\ DetachedHeld(win) /\ win.snapTimers = 1

\* C13: in every variant with a physics loop, in every reachable state at most
\* one interval timer of the window is live, and it is the one the
\* physicsInterval field holds.
C13_OneInterval ==
  variant \in PhysicsVariants =>
    /\ win.liveIntervals <= 1
    /\ win.physicsInterval <=> win.liveIntervals = 1

\* the pointer-up of a second session started the loop again while the timer
\* of the first was still live
C13_Witness ==
  /\ variant \in PhysicsVariants
  /\ lastOp = "endDrag" /\ drags = 2
  /\ win.restarted
  /\ win.isDetached /\ win.physicsInterval /\ win.liveIntervals = 1

\* C14: in every variant, a step that takes the window from attached to detached
\* dispatches exactly one windowDetached event and no windowReattached, a step
\* that takes it from detached to attached exactly one windowReattached and no
\* windowDetached, and any other step neither; so after every step the events
\* dispatched so far alternate, starting with windowDetached.
C14_EventsAlternate ==
  [][/\ (~win.isDetached /\ win'.isDetached) =>
          /\ win'.detachedEvents = win.detachedEvents + 1
          /\ win'.reattachedEvents = win.reattachedEvents
     /\ (win.isDetached /\ ~win'.isDetached) =>
          /\ win'.reattachedEvents = win.reattachedEvents + 1
          /\ win'.detachedEvents = win.detachedEvents
     /\ (win.isDetached <=> win'.isDetached) =>
          /\ win'.detachedEvents = win.detachedEvents
          /\ win'.reattachedEvents = win.reattachedEvents
     /\ win'.detachedEvents - win'.reattachedEvents = IF win'.isDetached THEN 1 ELSE 0]_vars

\* C15: with two windows on the page, every document-level pointer-move and
\* pointer-up handled while the first window is being dragged and the second is
\* not leaves every field of the second window's controller unchanged, and so
\* does every tick of the first window's loop.
C15_OtherUntouched ==
  [][/\ (lastOp' \in {"drag", "endDrag"} /\ win.isDragging /\ ~other.isDragging) =>
          other' = other
     /\ lastOp' = "updatePhysics" => other' = other]_vars

\* a pointer-move detached the first window while the second, thrown earlier,
\* was in flight with its own loop running
C15_Witness ==
  /\ lastOp = "drag" /\ win.isDragging /\ win.isDetached /\ win.detachedEvents = 1
  /\ other.isDetached /\ other.physicsInterval /\ ~other.isDragging

\* C16: in every variant, for a window constructed without a drag-handle
\* element, every pointer-down, pointer-move, pointer-up and double-click leaves
\* isDragging false and does not change isDetached, the position or the velocity.
C16_NoHandleNoDrag ==
  [][~win.hasTitleBar =>
        /\ ~win'.isDragging
        /\ win'.isDetached = win.isDetached
        /\ win'.left = win.left /\ win'.top = win.top /\ win'.bottom = win.bottom
        /\ win'.vx = win.vx /\ win'.vy = win.vy]_vars

\* a pointer-down where the title bar would be has started no drag
C16_Witness ==
  /\ ~win.hasTitleBar
  /\ lastOp = "mousedown" /\ onTitleBar(win, pointer[1], pointer[2])
  /\ ~win.isDragging

\* C17: in the stretch variants a snap-back timeout that fires during a drag
\* session (one an earlier session left pending) changes neither isStretching nor
\* stretchAmount: the session keeps the stretch state its own pointer-moves
\* computed.
C17_StaleTimerHarmless ==
  [][(/\ variant \in StretchVariants
      /\ lastOp' = "snapBackTimeout"
      /\ win.isDragging) =>
        /\ win'.isStretching = win.isStretching
        /\ win'.stretchAmount = win.stretchAmount]_vars

\* C18: in every variant with a physics loop, a handler that calls startPhysics
\* while the interval timer is live, and does not reattach the window, leaves
\* the velocity as it found it.
C18_RestartKeepsVelocity ==
  [][(/\ variant \in PhysicsVariants
      /\ win'.restarted
      /\ win'.isDetached) =>
        /\ win'.vx = win.vx
        /\ win'.vy = win.vy]_vars

\* C19: in every variant with a physics loop, a tick that finds the window
\* attached or being dragged clears the interval timer and zeroes the velocity
\* and changes nothing else: not the position, not a flag.
C19_TickOnlyWhenFree ==
  [][(/\ variant \in PhysicsVariants
      /\ lastOp' = "updatePhysics"
      /\ (~win.isDetached \/ win.isDragging)) =>
        /\ win'.left = win.left /\ win'.top = win.top /\ win'.bottom = win.bottom
        /\ win' = [beginTick(win) EXCEPT !.physicsInterval = FALSE, !.liveIntervals = 0,
                                         !.vx = 0, !.vy = 0]]_vars

\* a tick ran in the middle of a drag of a floating window that had a velocity
C19_Witness ==
  /\ variant \in PhysicsVariants
  /\ lastOp = "updatePhysics"
  /\ win.isDragging /\ win.isDetached
  /\ ~win.physicsInterval /\ win.vx = 0 /\ win.vy = 0
  /\ drags = 2

\* C20: in every variant with a physics loop, after every handler or tick that
\* reattached the window, the window is attached with no live interval timer,
\* velocity (0, 0), gravity off, isStretching false, on the rail.
C20_ReattachedAtRest ==
  [][(/\ variant \in PhysicsVariants
      /\ win'.reattachedEvents # win.reattachedEvents) =>
        /\ ~win'.isDetached
        /\ ~win'.physicsInterval /\ win'.liveIntervals = 0
        /\ win'.vx = 0 /\ win'.vy = 0
        /\ ~win'.gravityEnabled
        /\ ~win'.isStretching
        /\ win'.bottom = railBottom /\ win'.top = Auto]_vars

\* C21: in every variant, a pointer-up that finds the window detached, its bottom
\* edge inside the dock zone of the release check and velocity.y > 0 (the last
\* pointer-move was downward) leaves the window attached.
C21_DownwardReleaseReattaches ==
  [][(/\ lastOp' = "endDrag"
      /\ win.isDragging /\ win.isDetached
      /\ inDockZone(win)
      /\ win.vy > 0) =>
        ~win'.isDetached]_vars

\* the velocity and the position one tick computes from state s: gravity, the
\* boundary handling and the friction
tickStep(s) ==
  LET vy0 == IF variant \in GravityVariants /\ s.gravityEnabled
             THEN s.vy + Px(gravity) \div 10
             ELSE s.vy
  IN [x |-> bounceAxis(rectLeft(s), s.vx, maxX), y |-> bounceAxis(rectTop(s), vy0, maxY)]

\* the tick from state s moves the window (it does not stop the loop), the moved
\* window's bottom edge is inside the dock zone and its speed is below 2
movesSlowlyInDockZone(s) ==
  LET t == tickStep(s)
  IN /\ ~(Abs(t.x.v) * 10 < Scale /\ Abs(t.y.v) * 10 < Scale)
     /\ Clamp(t.y.pos, maxY) + Px(WindowHeight) >= Px(ViewportHeight - autoZone)
     /\ t.x.v * t.x.v + t.y.v * t.y.v < Px(2) * Px(2)

C23_FreeMoveFromAnchor ==
  [][(/\ lastOp' = "drag"
      /\ win.isDragging /\ win.down.detached /\ win'.isDetached) =>
        /\ win'.left = Clamp(win.down.left + Px(pointer'[1] - win.down.x),
                             Px(ViewportWidth - WindowWidth))
        /\ win'.top = Clamp(win.down.top + Px(pointer'[2] - win.down.y),
                            Px(ViewportHeight - WindowHeight))]_vars

\* C24: in every variant with a physics loop, after every pointer-move of a
\* drag of a detached window the velocity is the displacement of the pointer
\* since the previous pointer event times the variant's responsiveness factor
\* (so a pointer-move that does not displace the pointer leaves velocity (0, 0)).
C24_VelocityFromFrameDelta ==
  [][(/\ variant \in PhysicsVariants
      /\ lastOp' = "drag"
      /\ win.isDragging /\ win.isDetached /\ win'.isDetached) =>
        /\ win'.vx = (Px(pointer'[1] - pointer[1]) * responsiveness) \div 10
        /\ win'.vy = (Px(pointer'[2] - pointer[2]) * responsiveness) \div 10]_vars

\* C25: in the stretch variants, once a pointer-move has detached the window
\* in the middle of a session, every following pointer-move of that session
\* puts the window at its previous position plus the displacement of the
\* pointer since the previous pointer-move, clamped to the viewport: the
\* pointer position of the detaching move is the anchor, and a move that
\* does not displace the pointer leaves the window where the detach put it.
C25_DetachSetsAnchor ==
  [][(/\ variant \in StretchVariants
      /\ lastOp' = "drag"
      /\ win.isDragging /\ win.isDetached /\ ~win.down.detached) =>
        /\ win'.left = Clamp(rectLeft(win) + Px(pointer'[1] - pointer[1]), maxX)
        /\ win'.top = Clamp(rectTop(win) + Px(pointer'[2] - pointer[2]), maxY)]_vars

\* C26: in the stretch variants stretchAmount is 0 when a pointer-up handler
\* returns, whatever the session did (stretched, detached the window in the
\* middle of the gesture, or neither), and when a pointer-move on the
\* attached window with an upward displacement of at most 10px returns.
C26_StretchAmountReset ==
  [][(/\ variant \in StretchVariants
      /\ win.isDragging
      /\ \/ lastOp' = "endDrag"
         \/ /\ lastOp' = "drag"
            /\ ~win.isDetached
            /\ win.stretchStartY - pointer'[2] <= 10) =>
        win'.stretchAmount = 0]_vars

\* C27: in every variant with a physics loop, a tick that finds the window
\* detached and not dragged and after whose friction step |vx| < 0.1 and
\* |vy| < 0.1 hold clears the interval timer, leaves the velocity at exactly
\* (0, 0) and does not move the window; and a tick runs only while a timer
\* scheduled by startPhysics is live, so none follows the stop.
C27_StopTick ==
  [][lastOp' = "updatePhysics" =>
       /\ win.physicsInterval /\ win.liveIntervals > 0
       /\ (/\ variant \in PhysicsVariants
           /\ win.isDetached /\ ~win.isDragging
           /\ Abs(tickStep(win).x.v) * 10 < Scale
           /\ Abs(tickStep(win).y.v) * 10 < Scale) =>
             /\ ~win'.physicsInterval /\ win'.liveIntervals = 0
             /\ win'.vx = 0 /\ win'.vy = 0
             /\ win'.left = win.left /\ win'.top = win.top /\ win'.bottom = win.bottom
             /\ win'.isDetached]_vars

\* a loop that came to rest from a non-zero velocity
C27_Witness ==
  /\ lastOp = "updatePhysics"
  /\ win.cameToRest
  /\ win.isDetached /\ ~win.physicsInterval
  /\ win.vx = 0 /\ win.vy = 0

\* what startDrag keeps of the pointer position (cx, cy) and of the window
\* rectangle, in the fields the variant has for them
captured(s, cx, cy) ==
  CASE variant = "StretchClean" ->
         /\ s.dragStartX = cx /\ s.dragStartY = cy
         /\ s.windowStartX = rectLeft(s) /\ s.windowStartY = rectTop(s)
    [] variant = "ShakeBasic" ->
         /\ s.dragOffsetX = Px(cx) - rectLeft(s)
         /\ s.dragOffsetY = Px(cy) - rectTop(s)
    [] OTHER ->
         s.lastMouseX = cx /\ s.lastMouseY = cy

\* C28: in every variant, a pointer-down on the title bar of a window that
\* was constructed with one and is not being dragged leaves isDragging true
\* and the pointer position and window rectangle captured, and in the shake
\* variants leaves exactly one sample, the pointer-down position, in the
\* sample buffer.
C28_PointerDownStartsDrag ==
  [][(/\ lastOp' \in {"startDrag", "mousedown"}
      /\ win.hasTitleBar /\ ~win.isDragging
      /\ onTitleBar(win, pointer'[1], pointer'[2])) =>
        /\ win'.isDragging
        /\ captured(win', pointer'[1], pointer'[2])
        /\ variant \in ShakeVariants =>
              /\ Len(win'.lastPositions) = 1
              /\ win'.lastPositions[1].x = pointer'[1]
              /\ win'.lastPositions[1].y = pointer'[2]]_vars

\* C29: in the shake variants the sample buffer never holds more than 10
\* samples; pointer-down leaves in it the pointer-down sample alone, and a
\* pointer-move appends its sample at the end, after removing the oldest
\* sample when the buffer already holds 10.
C29_BufferBounded ==
  [][(variant \in ShakeVariants) =>
      (/\ Len(win'.lastPositions) <= 10
       /\ lastOp' = "startDrag" =>
             /\ Len(win'.lastPositions) = 1
             /\ win'.lastPositions[1].x = pointer'[1]
             /\ win'.lastPositions[1].y = pointer'[2]
       /\ (lastOp' = "drag" /\ win.isDragging) =>
             LET kept == IF Len(win.lastPositions) = 10
                         THEN Tail(win.lastPositions)
                         ELSE win.lastPositions
                 n == Len(win'.lastPositions)
             IN /\ n = Len(kept) + 1
                /\ SubSeq(win'.lastPositions, 1, n - 1) = kept
                /\ win'.lastPositions[n].x = pointer'[1]
                /\ win'.lastPositions[n].y = pointer'[2])]_vars

\* a full buffer whose first sample is no longer the pointer-down sample
\* (the only one recorded with dt = 0), in a second session
C29_Witness ==
  /\ variant \in ShakeVariants
  /\ lastOp = "drag"
  /\ win.isDragging
  /\ drags = 2
  /\ Len(win.lastPositions) = 10
  /\ win.lastPositions[1].dt # 0

\* the five conditions on the segments of a sample buffer, counted as the loop
\* of detectShake counts them
fiveConditions(lp) ==
  LET a == shakeAnalysis(lp)
  IN /\ a.verticalMovements >= 5
     /\ a.upwardMovement >= 3
     /\ a.totalVerticalDistance > 100
     /\ a.maxUpwardDelta > 35
     /\ a.maxConsecutiveUpward >= 2

\* C30: in the shake variants a pointer-move on the attached window detaches
\* it if and only if the buffer it leaves satisfies all five conditions: at
\* least 5 segments with |deltaY| above the shake threshold, at least 3 of
\* them upward, cumulative |deltaY| above 100px, largest upward one above
\* 35px, and at least 2 upward ones in a row.
C30_ShakeDetachIff ==
  [][(/\ variant \in ShakeVariants
      /\ lastOp' = "drag"
      /\ win.isDragging /\ ~win.isDetached) =>
        (win'.isDetached <=> fiveConditions(win'.lastPositions))]_vars

\* no two neighbouring samples of the buffer differ vertically by more than
\* the shake threshold
calm(lp) ==
  \A i \in 2..Len(lp) : Abs(lp[i].y - lp[i - 1].y) <= shakeThreshold

\* C31: in the shake variants a pointer-move on the attached, dragged window
\* that leaves a sample buffer in which no two consecutive samples differ
\* vertically by more than the shake threshold leaves the window attached,
\* however many moves the drag has had.
C31_CalmDragStaysAttached ==
  [][(/\ variant \in ShakeVariants
      /\ lastOp' = "drag"
      /\ win.isDragging /\ ~win.isDetached
      /\ calm(win'.lastPositions)) =>
        ~win'.isDetached]_vars

\* a slide along the rail of more than 10 moves: the buffer is full, its first
\* sample is no longer the pointer-down sample, and the window has moved
C31_Witness ==
  /\ variant \in ShakeVariants
  /\ lastOp = "drag"
  /\ win.isDragging /\ ~win.isDetached
  /\ Len(win.lastPositions) = 10
  /\ win.lastPositions[1].dt # 0
  /\ calm(win.lastPositions)
  /\ win.left # Px(20)

\* C32: in the stretch variants the outcome of a pointer-move does not depend
\* on the time-dependent pulse of the stretch effect: from the same state and
\* the same pointer position, every value of the pulse gives the same
\* left/top position, velocity and detached flag, also for the move that
\* detaches the window.
C32_EffectDoesNotFeedBack ==
  [][(/\ variant \in StretchVariants
      /\ lastOp' = "drag"
      /\ win.isDragging) =>
        \A q \in Pulses :
          LET r == drag(begin(win), pointer'[1], pointer'[2], 0, q)
          IN /\ r.isDetached = win'.isDetached
             /\ r.left = win'.left /\ r.top = win'.top
             /\ r.vx = win'.vx /\ r.vy = win'.vy]_vars

\* C33: in the shake variants calculateVelocity returns, for every sample
\* buffer a run can build, a finite number that is not negative, and 0 when
\* the buffer holds fewer than 2 samples; in particular when the samples it
\* reads carry the same timestamp (elapsed time 0 is taken as 1 ms).
C33_VelocityFinite ==
  variant \in ShakeVariants =>
    LET v == calculateVelocity(win.lastPositions)
    IN /\ v.finite
       /\ v.value >= 0
       /\ Len(win.lastPositions) < 2 => v.value = 0

\* a pointer-up whose slam check read samples of one timestamp and a non-zero
\* distance, and reattached the window on the velocity computed from them
C33_Witness ==
  /\ variant \in ShakeVariants
  /\ lastOp = "endDrag"
  /\ clicks = 0
  /\ win.reattachedEvents = 1
  /\ Len(win.lastPositions) >= 2
  /\ totalTime(recentSamples(win.lastPositions), 2) = 0
  /\ calculateVelocity(win.lastPositions).value > slamVelocityThreshold * Scale

C35_WrittenInsideViewport ==
  [][(/\ WindowWidth <= ViewportWidth /\ WindowHeight <= ViewportHeight
      /\ \/ lastOp' = "drag" /\ win.isDragging /\ win.isDetached
         \/ /\ lastOp' = "updatePhysics"
            /\ variant \in PhysicsVariants
            /\ win.isDetached /\ ~win.isDragging
            /\ ~(Abs(tickStep(win).x.v) * 10 < Scale /\ Abs(tickStep(win).y.v) * 10 < Scale)
      /\ win'.isDetached) =>
        /\ 0 <= win'.left /\ win'.left <= maxX
        /\ 0 <= win'.top /\ win'.top <= maxY]_vars

\* a free move the clamp stopped at the bottom edge, the pointer further down
C35_Witness ==
  /\ lastOp = "drag"
  /\ win.isDragging /\ win.isDetached
  /\ win.top = maxY
  /\ Px(pointer[2]) > maxY + Px(TitleBarHeight)

\* C36: in the variants with gravity, gravityEnabled implies isDetached in
\* every reachable state: a double-click on the attached window leaves
\* gravityEnabled as it was, and every step that reattaches the window
\* leaves gravityEnabled false.
C36_GravityOnlyDetached ==
  /\ (variant \in GravityVariants /\ win.gravityEnabled) => win.isDetached
  /\ [][(variant \in GravityVariants) =>
          (/\ win'.gravityEnabled => win'.isDetached
           /\ (lastOp' = "dblclick" /\ ~win.isDetached) =>
                 (win'.gravityEnabled = win.gravityEnabled /\ ~win'.physicsInterval)
           /\ (win.isDetached /\ ~win'.isDetached) => ~win'.gravityEnabled)]_vars

\* a double-click on the title bar of the floating window switched gravity on
C36_Witness ==
  /\ variant \in GravityVariants
  /\ lastOp = "dblclick"
  /\ onTitleBar(win, pointer[1], pointer[2])
  /\ win.gravityEnabled
  /\ win.isDetached
  /\ win.physicsInterval

\* C37: in the variants with gravity, a window that is detached, not dragged
\* and has gravity enabled is never left with its interval timer cleared
\* above the dock zone, and under fair ticks it is eventually reattached (or a
\* pointer event takes it or switches gravity off).
C37_FallsToDock ==
  /\ [](variant \in GravityVariants /\ win.gravityEnabled /\ win.isDetached /\ ~win.isDragging
          => (win.physicsInterval \/ rectBottom(win) >= Px(ViewportHeight - autoZone)))
  /\ (variant \in GravityVariants /\ win.gravityEnabled /\ win.isDetached /\ ~win.isDragging)
       ~> (~win.isDetached \/ win.isDragging \/ ~win.gravityEnabled)

\* C38: in every variant, no pointer-move and no physics tick that finds the
\* window dragged takes it from detached to attached, and every step that
\* reattaches the window by a release or auto-reattach check is a pointer-up
\* or a tick that found isDragging false; the window is not dragged after it.
C38_NotReattachedWhileHeld ==
  [][/\ (win.isDragging /\ win.isDetached /\ lastOp' \in {"drag", "updatePhysics"})
          => (win'.isDetached /\ win'.isDragging)
     /\ (win.isDetached /\ ~win'.isDetached /\ lastOp' \notin {"shiftDblClick", "dblclick"})
          => /\ lastOp' = "endDrag" \/ (lastOp' = "updatePhysics" /\ ~win.isDragging)
             /\ ~win'.isDragging]_vars

\* the timer a release left live ticked while the next session held the
\* floating window inside the dock zone; the window is still detached
C38_Witness ==
  /\ lastOp = "updatePhysics"
  /\ win.isDragging /\ win.isDetached
  /\ rectBottom(win) >= Px(ViewportHeight - autoZone)
  /\ drags = 2

\* one step seen from one window element: at most one controller, a controller
\* is constructed only when the windowPhysics property is unset, and an
\* initializer that finds the property set leaves element and controller as
\* they are
oneController(e, f) ==
  /\ f.controllers <= 1
  /\ f.controllers # e.controllers =>
       (~e.windowPhysics /\ e.controllers = 0 /\ f.controllers = 1 /\ f.windowPhysics)
  /\ e.windowPhysics => f.windowPhysics
  /\ (e.windowPhysics /\ lastOp' \in {"initializeWindowPhysics", "debugWindowPhysics"}) => f = e

\* C39: in every variant, after any number and any interleaving of
\* initializeWindowPhysics callbacks and debugWindowPhysics calls, each window
\* element has at most one controller: a controller is constructed only for
\* an element whose windowPhysics property is unset, and an existing
\* controller is never replaced.
C39_OneControllerPerWindow ==
  /\ win.controllers <= 1 /\ other.controllers <= 1
  /\ [][oneController(win, win') /\ oneController(other, other')]_vars

\* an initializer callback ran in the middle of a drag session and left the
\* controller, still holding the window, as it was
C39_Witness ==
  /\ lastOp = "initializeWindowPhysics"
  /\ win.windowPhysics /\ win.controllers = 1
  /\ other.windowPhysics /\ other.controllers = 1
  /\ win.isDragging
  /\ drags = 1

============================================================================
